---- MODULE Spec2Model ----
(***************************************************************************)
(* QTransfer: the BB84 simulator of qiskit-service and the backend's       *)
(* QKD / upload / download handlers, as state machines.                    *)
(*                                                                         *)
(* Probabilities (noise_p, eve_fraction) are integers in percent; a QBER   *)
(* is the exact fraction [num, den].  A container on disk is a sequence of *)
(* cells: the nonce field and each GCM tag are one cell, each ciphertext   *)
(* byte is one cell.                                                       *)
(***************************************************************************)
EXTENDS Integers, Sequences, FiniteSets, TLC

\* ------------------------------------------------------------------ bounds

\* Largest num_qubits of a simulation request.
MaxQubits == 4

\* Longest sifted key whose encoding is followed on its own, in bits.
MaxKeyBits == 9

\* Most downloads of file contents followed while responses are being sent.
MaxDownloads == 2

\* Most runs of run_qkd_simulation started for a session while its life is
\* followed.
MaxRuns == 2

\* Most upload requests in progress at a time while concurrent uploads are
\* followed.
MaxUploads == 2

\* Most calls of broadcast_to_session followed while the connection registry
\* is followed.
MaxBroadcasts == 2

\* Longest file a client uploads, in bytes.
MaxFileLen == 5
\* Number of uploads that pass the precondition checks.
MaxTransfers == 1
\* Number of cells of one container the storage may have altered at a time.
MaxAltered == 1
\* chunk_size of upload_file and download_file_content (64 KiB in the source),
\* scaled down to a few bytes.
ChunkSize == 2
\* settings.MAX_FILE_SIZE (500 MiB in the source), scaled down.
MAX_FILE_SIZE == 4

\* ------------------------------------------------------- program constants

\* min(100, ...) in the sample size.
SampleCap == 100
\* len(sifted_key) // 4 in the sample size.
SampleDivisor == 4
\* alice_bases[:10], bob_bases[:10], bob_measurements[:10] in the response.
DisplayLen == 10
\* range(0, 101, 10): the last progress value of run_qkd_simulation and the step.
ProgressEnd == 100
ProgressStep == 10
\* max(256, num_qubits // 4) random bits in _local_simulation (256 in the
\* source), scaled down.
FallbackMinBits == 2
\* num_qubits // 4 in _local_simulation.
FallbackDivisor == 4
\* The 16-byte GCM tag (encrypted_data[:16], chunk_size + 16) is one cell.
TagCells == 1
\* The 12-byte nonce field (read(12)) is one cell.
NonceCells == 1
\* io.DEFAULT_BUFFER_SIZE of open(file_path, 'wb'), in cells: more than the nonce
\* field, less than the record of a full chunk (12 < 8192 < 65552 in the source).
BufferSize == 2

VARIABLES
    sessions,           \* table qkd_sessions: session id -> row
    transfers,          \* table file_transfers: the rows, in order of creation (id = index)
    up,                 \* per transfer: the locals of the upload_file call that created it
    disk,               \* per transfer: UPLOAD_DIR/<id>.enc
    temp,               \* per transfer: /tmp/decrypted_<id>_<filename>
    events,             \* the messages handed to broadcast_to_session, in order
    resp,               \* the last HTTP response
    qkdTask,            \* session id -> the run_qkd_simulation task scheduled for it
    simPc,              \* "idle" | "loop" | "done": position in simulate_bb84_analytic
    simReq,             \* the QKDRequest being simulated
    alice_bits, alice_bases, bob_bases, bob_measurements,
    sifted_positions, sifted_key,
    simResult,          \* the QKDResponse, or NoResult
    draw,               \* the draws of the loop iteration that ran last, or NoDraw
    downloads,          \* the FileResponses download_file_content returned, in order,
                        \* each with the cleanup task scheduled for it
    active_connections, \* ConnectionManager.active_connections: session id -> list of websockets
    endpoints,          \* websocket -> the websocket_endpoint call that serves it
    broadcasts          \* the calls of broadcast_to_session, in order, with their locals

simVars == <<simPc, simReq, alice_bits, alice_bases, bob_bases, bob_measurements,
             sifted_positions, sifted_key, simResult, draw>>

fileVars == <<transfers, up, disk, temp>>

connVars == <<active_connections, endpoints, broadcasts>>

vars == <<sessions, fileVars, events, resp, qkdTask, simVars, downloads, connVars>>

\* ----------------------------------------------------------------- helpers

Min(a, b) == IF a < b THEN a ELSE b

Bit == {0, 1}
Basis == {"Z", "X"}

\* seq[:k]
Take(seq, k) == SubSeq(seq, 1, Min(k, Len(seq)))

\* The outcomes of `SystemRandom().random() < p`: random() lies in [0, 1).
RandomBelow(p) == IF p <= 0 THEN {FALSE} ELSE IF p >= 100 THEN {TRUE} ELSE {TRUE, FALSE}

NoResult == [status |-> "none"]

\* No iteration of the transmission loop is being looked at.
NoDraw == [status |-> "none"]

\* ------------------------------------------------------ QKD request values

SupportedNoiseModels == {"depolarizing", "none"}
SupportedEveStrategies == {"intercept_resend"}

\* (noise_model, noise_p, eve_fraction) of the requests the model sends.
Profiles ==
    { <<"depolarizing", 0, 0>>, <<"depolarizing", 100, 0>>, <<"depolarizing", 0, 100>>,
      <<"depolarizing", 50, 50>>, <<"none", 100, 0>>,
      <<"thermal", 0, 0>>, <<"depolarizing", 150, 0>>, <<"depolarizing", 0, -50>> }

QKDRequest(n, prof, strat) ==
    [num_qubits |-> n, noise_model |-> prof[1], noise_p |-> prof[2],
     eve_fraction |-> prof[3], eve_strategy |-> strat, fast_mode |-> TRUE]

Requests ==
    { QKDRequest(n, prof, "intercept_resend") : n \in (-1)..MaxQubits, prof \in Profiles }
    \cup { QKDRequest(1, <<"depolarizing", 0, 0>>, "beam_split") }

\* What the specification's SimulationParameters accept.
ValidRequest(r) ==
    /\ r.num_qubits > 0
    /\ r.noise_p >= 0 /\ r.noise_p <= 100
    /\ r.eve_fraction >= 0 /\ r.eve_fraction <= 100
    /\ r.noise_model \in SupportedNoiseModels
    /\ r.eve_strategy \in SupportedEveStrategies

\* ------------------------------------------------- simulate_bb84_analytic

\* A channel on which Bob's result is random whatever the bases are.
BobResultRandom(abit, abasis, bbasis, ebasis, eve_intercepts, eve_rand, bob_rand) == bob_rand

\* Bob's result for one qubit, from the draws of the iteration.
BobResult(abit, abasis, bbasis, ebasis, eve_intercepts, eve_rand, bob_rand) ==
    IF eve_intercepts
    THEN LET eve_result == IF abasis = ebasis THEN abit ELSE eve_rand
         IN  IF bbasis = ebasis THEN eve_result ELSE bob_rand
    ELSE IF bbasis = abasis THEN abit ELSE bob_rand

\* A channel that flips every bit, whatever the noise draw was.
ApplyNoiseAlways(bit, flip) == 1 - bit

\* "Add depolarizing noise": the flip is applied whatever params.noise_model is.
ApplyNoise(bit, flip) == IF flip THEN 1 - bit ELSE bit

\* The sifting loop: the positions (0-based) where the bases agree, in order.
RECURSIVE SiftPositions(_, _, _)
SiftPositions(abases, bbases, i) ==
    IF i > Len(abases) THEN <<>>
    ELSE IF abases[i] = bbases[i]
         THEN <<i - 1>> \o SiftPositions(abases, bbases, i + 1)
         ELSE SiftPositions(abases, bbases, i + 1)

\* A sifting that takes Alice's first bits instead of her bits at the sifted
\* positions.
SiftKeyByIndex(abits, positions) == [k \in 1..Len(positions) |-> abits[k]]

\* sifted_key.append(alice_bits[i]) for each sifted position.
SiftKey(abits, positions) == [k \in 1..Len(positions) |-> abits[positions[k] + 1]]

\* A sample size that rounds len / 4 up.
SampleSizeCeil(len) == Min(SampleCap, (len + SampleDivisor - 1) \div SampleDivisor)

SampleSize(len) == Min(SampleCap, len \div SampleDivisor)

\* SystemRandom().sample(range(len), k): the orderings of k distinct positions.
Samples(len, k) ==
    { s \in [1..k -> 0..(len - 1)] : \A a, b \in 1..k : a # b => s[a] # s[b] }

\* A count of the sampled positions at which the bits agree.
SampleAgreements(sample, positions, abits, bmeas) ==
    Cardinality({ k \in 1..Len(sample) :
                    abits[positions[sample[k] + 1] + 1] = bmeas[positions[sample[k] + 1] + 1] })

\* sample_errors over the sampled positions.
SampleErrors(sample, positions, abits, bmeas) ==
    Cardinality({ k \in 1..Len(sample) :
                    abits[positions[sample[k] + 1] + 1] # bmeas[positions[sample[k] + 1] + 1] })

Qber(sample, positions, abits, bmeas) ==
    IF Len(sample) > 0
    THEN [num |-> SampleErrors(sample, positions, abits, bmeas), den |-> Len(sample)]
    ELSE [num |-> 0, den |-> 1]

\* qber > 0.1
AboveThreshold(q) == 10 * q.num > q.den

HexChars == <<"0", "1", "2", "3", "4", "5", "6", "7", "8", "9", "a", "b", "c", "d", "e", "f">>

\* padded_key = sifted_key + [0] * ((8 - len % 8) % 8)
PadKey(bits) == bits \o [k \in 1..((8 - (Len(bits) % 8)) % 8) |-> 0]

\* A packing that puts the first of four bits in the low-order place.
NibbleLsbFirst(bits, from) ==
    HexChars[bits[from] + 2 * bits[from + 1] + 4 * bits[from + 2] + 8 * bits[from + 3] + 1]

\* int(''.join(map(str, bits4)), 2) for four bits, as one hex character.
Nibble(bits, from) ==
    HexChars[8 * bits[from] + 4 * bits[from + 1] + 2 * bits[from + 2] + bits[from + 3] + 1]

\* key_bytes.hex(): two hex characters per byte of the padded key.
KeyHex(bits) ==
    IF Len(bits) > 0
    THEN LET padded == PadKey(bits)
         IN  [c \in 1..(Len(padded) \div 4) |-> Nibble(padded, 4 * (c - 1) + 1)]
    ELSE <<>>

\* _local_simulation: bytes(int(random_bits[i:i+8], 2) ...).hex(); the last
\* group of bits may be shorter than 8 and is not padded.
RECURSIVE BitsValue(_)
BitsValue(bits) ==
    IF bits = <<>> THEN 0 ELSE 2 * BitsValue(SubSeq(bits, 1, Len(bits) - 1)) + bits[Len(bits)]

KeyHexUnpadded(bits) ==
    LET nbytes == (Len(bits) + 7) \div 8
        byte(k) == BitsValue(SubSeq(bits, 8 * (k - 1) + 1, Min(8 * k, Len(bits))))
    IN  [c \in 1..(2 * nbytes) |->
            IF c % 2 = 1 THEN HexChars[(byte((c + 1) \div 2) \div 16) + 1]
            ELSE HexChars[(byte(c \div 2) % 16) + 1]]

QKDResponse(req, abits, abases, bbases, bmeas, positions, key, sample) ==
    LET qber == Qber(sample, positions, abits, bmeas)
    IN  [status |-> "ok",
         sifted_key |-> KeyHex(key),
         sifted_key_length |-> Len(key),
         qber |-> qber,
         sample_positions |-> sample,
         sample_values |-> [k \in 1..Len(sample) |-> abits[positions[sample[k] + 1] + 1]],
         alice_bases |-> Take(abases, DisplayLen),
         bob_bases |-> Take(bbases, DisplayLen),
         bob_measurements |-> Take(bmeas, DisplayLen),
         eve_detected |-> (req.eve_fraction > 0 /\ AboveThreshold(qber))]

\* POST /simulate: the request is taken as it is; every path of simulate_qkd
\* ends in simulate_bb84_analytic.  The service keeps nothing between requests:
\* one request is followed from its arrival to its response.
simulate_qkd(req) ==
    /\ simPc = "idle"
    /\ simPc' = "loop"
    /\ simReq' = req
    /\ alice_bits' = <<>>
    /\ alice_bases' = <<>>
    /\ bob_bases' = <<>>
    /\ bob_measurements' = <<>>
    /\ sifted_positions' = <<>>
    /\ sifted_key' = <<>>
    /\ simResult' = NoResult
    /\ UNCHANGED draw

\* What one iteration of "for i in range(n)" records, from its draws.
QubitStep(abit, abasis, bbasis, ebasis, eve_rand, bob_rand, eve_intercepts, flip) ==
    LET bob_result == BobResult(abit, abasis, bbasis, ebasis,
                                eve_intercepts, eve_rand, bob_rand)
    IN  /\ alice_bits' = Append(alice_bits, abit)
        /\ alice_bases' = Append(alice_bases, abasis)
        /\ bob_bases' = Append(bob_bases, bbasis)
        /\ bob_measurements' = Append(bob_measurements, ApplyNoise(bob_result, flip))

\* One iteration of "for i in range(n)".  The draws of secrets are independent,
\* so the ones the source makes before the loop are made here, at the iteration
\* that reads them.
SimulateQubit ==
    /\ simPc = "loop"
    /\ Len(alice_bits) < simReq.num_qubits
    /\ \E abit \in Bit, abasis \in Basis, bbasis \in Basis, ebasis \in Basis,
          eve_rand \in Bit, bob_rand \in Bit :
       \E eve_intercepts \in RandomBelow(simReq.eve_fraction),
          flip \in RandomBelow(simReq.noise_p) :
          QubitStep(abit, abasis, bbasis, ebasis, eve_rand, bob_rand, eve_intercepts, flip)
    /\ UNCHANGED <<simPc, simReq, sifted_positions, sifted_key, simResult, draw>>

\* The same iteration with its locals kept: eve_bases[i], eve_intercepts and
\* the outcome of the noise draw are in draw until the next iteration.
ObserveQubit ==
    /\ simPc = "loop"
    /\ Len(alice_bits) < simReq.num_qubits
    /\ \E abit \in Bit, abasis \in Basis, bbasis \in Basis, ebasis \in Basis,
          eve_rand \in Bit, bob_rand \in Bit :
       \E eve_intercepts \in RandomBelow(simReq.eve_fraction),
          flip \in RandomBelow(simReq.noise_p) :
          /\ QubitStep(abit, abasis, bbasis, ebasis, eve_rand, bob_rand, eve_intercepts, flip)
          /\ draw' = [status |-> "drawn", eve_basis |-> ebasis,
                      eve_intercepts |-> eve_intercepts, flip |-> flip]
    /\ UNCHANGED <<simPc, simReq, sifted_positions, sifted_key, simResult>>

\* After the loop: sifting, the QBER sample, the hex key and the response.
SimulateFinish ==
    /\ simPc = "loop"
    /\ Len(alice_bits) >= simReq.num_qubits
    /\ LET positions == SiftPositions(alice_bases, bob_bases, 1)
           key == SiftKey(alice_bits, positions)
       IN  /\ sifted_positions' = positions
           /\ sifted_key' = key
           /\ \E sample \in Samples(Len(key), SampleSize(Len(key))) :
                 simResult' = QKDResponse(simReq, alice_bits, alice_bases, bob_bases,
                                          bob_measurements, positions, key, sample)
    /\ simPc' = "done"
    /\ UNCHANGED <<simReq, alice_bits, alice_bases, bob_bases, bob_measurements, draw>>

\* "Convert key to hex string", followed on its own for a sifted key that the
\* sifting loop has produced.
EncodeKey ==
    /\ simPc = "sifted"
    /\ simResult' = [status |-> "key_hex", sifted_key |-> KeyHex(sifted_key),
                     sifted_key_length |-> Len(sifted_key)]
    /\ simPc' = "encoded"
    /\ UNCHANGED <<simReq, alice_bits, alice_bases, bob_bases, bob_measurements,
                   sifted_positions, sifted_key, draw>>

\* The requests whose transmission loop is followed draw by draw.
ChannelRequests ==
    { QKDRequest(n, prof, "intercept_resend") :
        n \in 1..2,
        prof \in { <<"depolarizing", 0, 0>>, <<"depolarizing", 50, 50>>,
                   <<"depolarizing", 0, 100>>, <<"none", 50, 0>> } }

\* The transmission loop of the service, iteration by iteration.
ChannelNext ==
    \/ /\ \E req \in ChannelRequests : simulate_qkd(req)
       /\ UNCHANGED <<sessions, fileVars, events, resp, qkdTask, downloads, connVars>>
    \/ /\ ObserveQubit
       /\ UNCHANGED <<sessions, fileVars, events, resp, qkdTask, downloads, connVars>>

\* ------------------------------------------------------------ backend data

\* Optional column values: None is the empty tuple, a value x is <<x>>.
None == <<>>
Some(x) == <<x>>

\* Session ids that exist in the file-transfer specifications, and one that does not.
KeyedSessions == {"s1", "s2"}
UnkeyedSession == "s3"
UnknownSession == "s0"
SessionIds == KeyedSessions \cup {UnkeyedSession, UnknownSession}

Byte == {0, 1}

\* The files a client uploads: every byte string of at most MaxFileLen bytes.
Files == UNION { [1..n -> Byte] : n \in 0..MaxFileLen }

\* data[from:from+n] (0-based from), as file.read(n) and f.read(n) return it.
ReadAt(data, from, n) == SubSeq(data, from + 1, Min(from + n, Len(data)))

\* --------------------------------------------------- utils/security.py

HexValue(c) ==
    CASE c = "0" -> 0 [] c = "1" -> 1 [] c = "2" -> 2 [] c = "3" -> 3
      [] c = "4" -> 4 [] c = "5" -> 5 [] c = "6" -> 6 [] c = "7" -> 7
      [] c = "8" -> 8 [] c = "9" -> 9 [] c = "a" -> 10 [] c = "b" -> 11
      [] c = "c" -> 12 [] c = "d" -> 13 [] c = "e" -> 14 [] c = "f" -> 15
      [] OTHER -> -1

\* A decoding that drops a trailing odd character and reads a character that
\* is no hex digit as zero.
FromHexLenient(hex) ==
    [ok |-> TRUE,
     bytes |-> [k \in 1..(Len(hex) \div 2) |->
                   16 * (IF HexValue(hex[2 * k - 1]) < 0 THEN 0 ELSE HexValue(hex[2 * k - 1]))
                      + (IF HexValue(hex[2 * k]) < 0 THEN 0 ELSE HexValue(hex[2 * k]))]]

\* bytes.fromhex: a ValueError on an odd length or a character that is no hex digit.
FromHex(hex) ==
    IF Len(hex) % 2 # 0 \/ \E k \in 1..Len(hex) : HexValue(hex[k]) < 0
    THEN [ok |-> FALSE, bytes |-> <<>>]
    ELSE [ok |-> TRUE,
          bytes |-> [k \in 1..(Len(hex) \div 2) |->
                        16 * HexValue(hex[2 * k - 1]) + HexValue(hex[2 * k])]]

\* HKDF-SHA256 as an ideal function of (input key material, salt, info):
\* the derived key is determined by its three inputs and by nothing else.
\* A TypeError (sifted_key is None) and a ValueError (malformed hex) both raise.
derive_aes_key(bb84_key_hex, salt) ==
    IF bb84_key_hex = None THEN [ok |-> FALSE, error |-> "TypeError", key |-> None]
    ELSE LET decoded == FromHex(bb84_key_hex[1])
         IN  IF ~decoded.ok THEN [ok |-> FALSE, error |-> "ValueError", key |-> None]
             ELSE [ok |-> TRUE, error |-> "",
                   key |-> Some([ikm |-> decoded.bytes, salt |-> salt, info |-> "qtransfer-aes"])]

\* hashlib.sha256(key).hexdigest()[:16], as an ideal hash.
generate_key_fingerprint(key) == [sha256_16 |-> key]

\* hashlib.sha256 over the bytes fed to it, as an ideal hash.
Sha256(data) == [sha256 |-> data]

\* secrets.token_bytes(12): the values the nonce field takes in the model.
NonceValues == {0, 1}

\* A cell of a container: a byte (the nonce field counts as one wide byte), or a
\* GCM tag, which is determined by the key, the nonce and the ciphertext it
\* authenticates.
ByteCell(v) == [b |-> v, tag |-> <<>>]
TagCell(key, nonce, ciphertext) == [b |-> 0, tag |-> <<key, nonce, ciphertext>>]

generate_nonce == { <<ByteCell(v)>> : v \in NonceValues }

RECURSIVE SumSeq(_)
SumSeq(seq) == IF seq = <<>> THEN 0 ELSE Head(seq) + SumSeq(Tail(seq))

\* The GCM counter-mode keystream byte at position i of a message: a function of
\* the key and the nonce, the same for every message encrypted under them.
GcmKeystream(key, nonce, i) ==
    (SumSeq(key.ikm) + Len(key.salt) + (IF key.salt = "s1" THEN 1 ELSE 0)
       + SumSeq([k \in 1..Len(nonce) |-> nonce[k].b]) + i) % 2

GcmXor(data, key, nonce) ==
    [i \in 1..Len(data) |-> (data[i] + GcmKeystream(key, nonce, i)) % 2]

\* An encryption that lays the record out as encrypted_data + encryptor.tag.
encrypt_chunk_tag_last(data, key, nonce) ==
    LET encrypted_data == [i \in 1..Len(data) |-> ByteCell(GcmXor(data, key, nonce)[i])]
    IN  encrypted_data \o <<TagCell(key, nonce, encrypted_data)>>

\* encryptor.tag + encrypted_data
encrypt_chunk(data, key, nonce) ==
    LET encrypted_data == [i \in 1..Len(data) |-> ByteCell(GcmXor(data, key, nonce)[i])]
    IN  <<TagCell(key, nonce, encrypted_data)>> \o encrypted_data

\* A decryption that never calls finalize(): the tag is not compared.
decrypt_chunk_unverified(encrypted_data, key, nonce) ==
    LET ciphertext == SubSeq(encrypted_data, TagCells + 1, Len(encrypted_data))
    IN  [ok |-> TRUE, error |-> "",
         data |-> GcmXor([i \in 1..Len(ciphertext) |-> ciphertext[i].b], key, nonce)]

\* tag = encrypted_data[:16]; ciphertext = encrypted_data[16:]; GCM(nonce, tag)
\* rejects a nonce or a tag that is too short, finalize() a tag that does not
\* authenticate the ciphertext.
decrypt_chunk(encrypted_data, key, nonce) ==
    LET tag == Take(encrypted_data, TagCells)
        ciphertext == SubSeq(encrypted_data, TagCells + 1, Len(encrypted_data))
    IN  IF Len(nonce) < NonceCells \/ Len(tag) < TagCells
        THEN [ok |-> FALSE, error |-> "ValueError", data |-> <<>>]
        ELSE IF tag # <<TagCell(key, nonce, ciphertext)>>
        THEN [ok |-> FALSE, error |-> "InvalidTag", data |-> <<>>]
        ELSE [ok |-> TRUE, error |-> "",
              data |-> GcmXor([i \in 1..Len(ciphertext) |-> ciphertext[i].b], key, nonce)]

\* ------------------------------------------------------------ api/files.py

Fraction(n, d) == [num |-> n, den |-> d]

Response(op, sid, tid, code, detail, body) ==
    [op |-> op, session_id |-> sid, transfer_id |-> tid, code |-> code,
     detail |-> detail, body |-> body]

NoResponse == Response("none", "", 0, 0, "", <<>>)

\* A response that also reports the fingerprint of the key it was made with:
\* "key_fingerprint" of the upload's answer, the X-Quantum-Key-Fingerprint
\* header of the download's.
FingerprintResponse(response, key_fingerprint) ==
    [field \in DOMAIN response \cup {"key_fingerprint"} |->
        IF field = "key_fingerprint" THEN key_fingerprint ELSE response[field]]

\* FileTransfer(session_id=..., original_size=..., status="encrypting")
FileTransfer(sid, size) ==
    [session_id |-> sid, original_size |-> size, encrypted_size |-> None,
     file_hash |-> None, upload_progress |-> Fraction(0, 1), status |-> "encrypting",
     error_message |-> None]

NoFile == [exists |-> FALSE, cells |-> <<>>]

\* A writer that forgets what it holds in its buffer when it writes data longer
\* than the buffer straight to the file.
BufferedWriteNoFlush(cells, buf, data) ==
    IF Len(data) <= BufferSize - Len(buf)
    THEN [cells |-> cells, buf |-> buf \o data]
    ELSE IF Len(data) > BufferSize
         THEN [cells |-> cells \o data, buf |-> <<>>]
         ELSE [cells |-> cells \o buf, buf |-> data]

\* BufferedWriter.write of open(file_path, 'wb'): data that fits is kept in the
\* buffer; otherwise the buffer is flushed, data longer than the buffer goes
\* straight to the file and shorter data becomes the new buffer content.
BufferedWrite(cells, buf, data) ==
    IF Len(data) <= BufferSize - Len(buf)
    THEN [cells |-> cells, buf |-> buf \o data]
    ELSE IF Len(data) > BufferSize
         THEN [cells |-> cells \o buf \o data, buf |-> <<>>]
         ELSE [cells |-> cells \o buf, buf |-> data]

\* A progress that reports the share of the file still to be processed.
ProgressRemaining(bytes_processed, file_size) ==
    [num |-> (file_size - bytes_processed) * 100, den |-> file_size]

\* progress = (bytes_processed / file_size) * 100
Progress(bytes_processed, file_size) == Fraction(bytes_processed * 100, file_size)

ProgressEvent(sid, tid, progress, chunk_count, fingerprint) ==
    [type |-> "quantum_encryption_progress", session_id |-> sid, transfer_id |-> tid,
     progress |-> progress, chunks_processed |-> chunk_count, key_fingerprint |-> fingerprint]

CompletedEvent(sid, tid, file_hash, fingerprint) ==
    [type |-> "quantum_encryption_completed", session_id |-> sid, transfer_id |-> tid,
     file_hash |-> file_hash, key_fingerprint |-> fingerprint]

ErrorEvent(sid, tid, error) ==
    [type |-> "quantum_encryption_error", session_id |-> sid, transfer_id |-> tid,
     error |-> error]

\* The except branch of upload_file, up to its broadcast.
UploadExcept(tid, error) ==
    /\ transfers' = [transfers EXCEPT ![tid].status = "encryption_failed",
                                      ![tid].error_message = Some(error)]
    /\ events' = Append(events, ErrorEvent(transfers[tid].session_id, tid, error))

\* A key check that only looks for a missing column value.
NoKeyNoneOnly(session) == session.sifted_key = None

\* "not session.sifted_key": the column is None or the empty string.
NoKey(session) == session.sifted_key \in {None, Some(<<>>)}

\* POST /{session_id}/upload, from the request to the first await of the chunk
\* loop (or to the response, when a precondition fails).
upload_file(sid, data) ==
    LET tid == Len(transfers) + 1
        file_size == Len(data)
    IN
    IF sid \notin DOMAIN sessions
    THEN /\ resp' = Response("upload", sid, 0, 404, "Quantum session not found", <<>>)
         /\ UNCHANGED <<sessions, fileVars, events>>
    ELSE IF sessions[sid].status # "key_derived"
    THEN /\ resp' = Response("upload", sid, 0, 400, "Quantum key distribution not completed", <<>>)
         /\ UNCHANGED <<sessions, fileVars, events>>
    ELSE IF NoKey(sessions[sid])
    THEN /\ resp' = Response("upload", sid, 0, 400, "No quantum encryption key available", <<>>)
         /\ UNCHANGED <<sessions, fileVars, events>>
    ELSE IF file_size > MAX_FILE_SIZE
    THEN /\ resp' = Response("upload", sid, 0, 413, "File too large", <<>>)
         /\ UNCHANGED <<sessions, fileVars, events>>
    ELSE
      LET derived == derive_aes_key(sessions[sid].sifted_key, sid)
          locals == [pc |-> "read", session_id |-> sid, data |-> data, pos |-> 0,
                     chunk_count |-> 0, bytes_processed |-> 0, original_hash |-> <<>>,
                     aes_key |-> derived.key, nonce |-> <<>>, buf |-> <<>>,
                     error |-> ""]
      IN
      /\ temp' = Append(temp, NoFile)
      /\ UNCHANGED <<sessions, resp>>
      /\ IF ~derived.ok
         THEN /\ transfers' = Append(transfers,
                     [FileTransfer(sid, file_size) EXCEPT !.status = "encryption_failed",
                                                         !.error_message = Some(derived.error)])
              /\ events' = Append(events, ErrorEvent(sid, tid, derived.error))
              /\ up' = Append(up, [locals EXCEPT !.pc = "error_broadcast",
                                                 !.error = derived.error])
              /\ disk' = Append(disk, NoFile)
         ELSE \E nonce \in generate_nonce :
              LET w == BufferedWrite(<<>>, <<>>, nonce)
              IN  /\ transfers' = Append(transfers, FileTransfer(sid, file_size))
                  /\ up' = Append(up, [locals EXCEPT !.nonce = nonce, !.buf = w.buf])
                  /\ disk' = Append(disk, [exists |-> TRUE, cells |-> w.cells])
                  /\ UNCHANGED events

\* One iteration of the chunk loop, from the return of file.read to the await
\* of the progress broadcast.
UploadChunk(tid) ==
    LET u == up[tid]
        original_chunk == ReadAt(u.data, u.pos, ChunkSize)
        chunk_count == u.chunk_count + 1
        encrypted_chunk == encrypt_chunk(original_chunk, u.aes_key[1], u.nonce)
        w == BufferedWrite(disk[tid].cells, u.buf, encrypted_chunk)
        bytes_processed == u.bytes_processed + Len(original_chunk)
        progress == Progress(bytes_processed, Len(u.data))
    IN
    /\ u.pc = "read"
    /\ original_chunk # <<>>
    /\ up' = [up EXCEPT ![tid].pc = "progress_broadcast",
                        ![tid].pos = u.pos + Len(original_chunk),
                        ![tid].chunk_count = chunk_count,
                        ![tid].original_hash = u.original_hash \o original_chunk,
                        ![tid].bytes_processed = bytes_processed,
                        ![tid].buf = w.buf]
    /\ disk' = [disk EXCEPT ![tid].cells = w.cells]
    /\ transfers' = [transfers EXCEPT ![tid].upload_progress = progress]
    /\ events' = Append(events,
            ProgressEvent(u.session_id, tid, progress, chunk_count,
                          generate_key_fingerprint(u.aes_key[1])))
    /\ UNCHANGED <<sessions, temp, resp>>

\* The progress broadcast returns: back to file.read at the top of the loop.
UploadResume(tid) ==
    /\ up[tid].pc = "progress_broadcast"
    /\ up' = [up EXCEPT ![tid].pc = "read"]
    /\ UNCHANGED <<sessions, transfers, disk, temp, events, resp>>

\* file.read raises (the byte stream fails): the with block closes the
\* container, which flushes the buffer, and the except branch runs.
UploadStreamError(tid) ==
    /\ up[tid].pc = "read"
    /\ up' = [up EXCEPT ![tid].pc = "error_broadcast", ![tid].buf = <<>>,
                        ![tid].error = "IOError"]
    /\ disk' = [disk EXCEPT ![tid].cells = disk[tid].cells \o up[tid].buf]
    /\ UploadExcept(tid, "IOError")
    /\ UNCHANGED <<sessions, temp, resp>>

\* file.read returns no bytes: the loop ends, the container is closed, the
\* results are stored and the completion is broadcast.
UploadFinish(tid) ==
    LET u == up[tid]
        cells == disk[tid].cells \o u.buf
        original_file_hash == Sha256(u.original_hash)
    IN
    /\ u.pc = "read"
    /\ ReadAt(u.data, u.pos, ChunkSize) = <<>>
    /\ up' = [up EXCEPT ![tid].pc = "completed_broadcast", ![tid].buf = <<>>]
    /\ disk' = [disk EXCEPT ![tid].cells = cells]
    /\ transfers' = [transfers EXCEPT ![tid].encrypted_size = Some(Len(cells)),
                                      ![tid].file_hash = Some(original_file_hash),
                                      ![tid].status = "ready"]
    /\ sessions' = [sessions EXCEPT ![u.session_id].status = "ready_for_download"]
    /\ events' = Append(events,
            CompletedEvent(u.session_id, tid, Some(original_file_hash),
                           generate_key_fingerprint(u.aes_key[1])))
    /\ UNCHANGED <<temp, resp>>

\* An upload whose completion broadcast raises into the except branch: the error
\* is stored and broadcast after the completion.
UploadReturnThroughExcept(tid) ==
    /\ up[tid].pc = "completed_broadcast"
    /\ up' = [up EXCEPT ![tid].pc = "error_broadcast", ![tid].error = "WebSocketError"]
    /\ transfers' = [transfers EXCEPT ![tid].status = "encryption_failed",
                                      ![tid].error_message = Some("WebSocketError")]
    /\ events' = Append(events, [type |-> "quantum_encryption_error",
                                 session_id |-> transfers[tid].session_id,
                                 transfer_id |-> tid, error |-> "WebSocketError"])
    /\ UNCHANGED <<sessions, disk, temp, resp>>

\* The completion broadcast returns: the success response.
UploadReturn(tid) ==
    /\ up[tid].pc = "completed_broadcast"
    /\ up' = [up EXCEPT ![tid].pc = "returned"]
    /\ resp' = FingerprintResponse(
                    Response("upload", up[tid].session_id, tid, 200, "ready", <<>>),
                    generate_key_fingerprint(up[tid].aes_key[1]))
    /\ UNCHANGED <<sessions, transfers, disk, temp, events>>

\* The error broadcast returns: HTTPException(500).
UploadRaise(tid) ==
    /\ up[tid].pc = "error_broadcast"
    /\ up' = [up EXCEPT ![tid].pc = "raised"]
    /\ resp' = Response("upload", up[tid].session_id, tid, 500, up[tid].error, <<>>)
    /\ UNCHANGED <<sessions, transfers, disk, temp, events>>

\* GET /{session_id}/download/{transfer_id}
download_file_info(sid, tid) ==
    LET file_exists == disk[tid].exists
        fixed == IF file_exists /\ transfers[tid].status # "ready"
                 THEN [transfers EXCEPT ![tid].status = "ready",
                                        ![tid].encrypted_size = Some(Len(disk[tid].cells))]
                 ELSE transfers
    IN
    /\ UNCHANGED <<sessions, up, disk, temp, events>>
    /\ IF sid \notin DOMAIN sessions
       THEN /\ resp' = Response("info", sid, tid, 404, "Quantum session not found", <<>>)
            /\ UNCHANGED transfers
       ELSE IF tid \notin DOMAIN transfers
       THEN /\ resp' = Response("info", sid, tid, 404, "File not found", <<>>)
            /\ UNCHANGED transfers
       ELSE IF fixed[tid].status # "ready"
       THEN /\ resp' = Response("info", sid, tid, 400, "File not ready for quantum decryption", <<>>)
            /\ transfers' = fixed
       ELSE IF ~file_exists
       THEN /\ resp' = Response("info", sid, tid, 404, "Quantum-encrypted file not found on server", <<>>)
            /\ transfers' = fixed
       ELSE /\ resp' = Response("info", sid, tid, 200, "ready", <<>>)
            /\ transfers' = [fixed EXCEPT ![tid].status = "decrypting"]

\* The decryption loop of download_file_content over the bytes that follow the
\* nonce field: reads of chunk_size + 16, each decrypted and appended to the
\* temporary file.  The result names the exception, if any, and what the
\* temporary file holds when the loop is left.
RECURSIVE DecryptLoop(_, _, _, _)
DecryptLoop(rest, key, nonce, written) ==
    LET encrypted_chunk == Take(rest, ChunkSize + TagCells)
    IN  IF encrypted_chunk = <<>>
        THEN [ok |-> TRUE, error |-> "", written |-> written]
        ELSE LET decrypted == decrypt_chunk(encrypted_chunk, key, nonce)
             IN  IF ~decrypted.ok
                 THEN [ok |-> FALSE, error |-> decrypted.error, written |-> written]
                 ELSE DecryptLoop(SubSeq(rest, Len(encrypted_chunk) + 1, Len(rest)),
                                  key, nonce, written \o decrypted.data)

\* The lengths of the reads encrypted_file.read(chunk_size + 16) makes over the
\* bytes that follow the nonce field, in order.
RECURSIVE ReadLengths(_)
ReadLengths(rest) ==
    LET encrypted_chunk == Take(rest, ChunkSize + TagCells)
    IN  IF encrypted_chunk = <<>> THEN <<>>
        ELSE <<Len(encrypted_chunk)>>
               \o ReadLengths(SubSeq(rest, Len(encrypted_chunk) + 1, Len(rest)))

\* GET /{session_id}/download/{transfer_id}/file.  Every exception of the try
\* block, the HTTPException(404)s included, is caught by "except Exception" and
\* answered with 500; the response of a success serves the temporary file.
download_file_content(sid, tid) ==
    /\ UNCHANGED <<sessions, transfers, up, disk, events>>
    /\ IF sid \notin DOMAIN sessions \/ tid \notin DOMAIN transfers
       THEN /\ resp' = Response("content", sid, tid, 500, "404: File not found", <<>>)
            /\ UNCHANGED temp
       ELSE IF ~disk[tid].exists
       THEN /\ resp' = Response("content", sid, tid, 500, "404: Quantum-encrypted file not found", <<>>)
            /\ UNCHANGED temp
       ELSE
         LET derived == derive_aes_key(sessions[sid].sifted_key, sid)
         IN  IF ~derived.ok
             THEN /\ resp' = Response("content", sid, tid, 500, derived.error, <<>>)
                  /\ UNCHANGED temp
             ELSE
               LET cells == disk[tid].cells
                   nonce == ReadAt(cells, 0, NonceCells)
                   result == DecryptLoop(SubSeq(cells, Len(nonce) + 1, Len(cells)),
                                         derived.key[1], nonce, <<>>)
               IN  /\ temp' = [temp EXCEPT ![tid] = [exists |-> TRUE, cells |-> result.written]]
                   /\ resp' = IF result.ok
                              THEN FingerprintResponse(
                                       Response("content", sid, tid, 200, "", result.written),
                                       generate_key_fingerprint(derived.key[1]))
                              ELSE Response("content", sid, tid, 500, result.error, <<>>)

\* The FileResponse a successful download_file_content returns, with the
\* cleanup task created for it.  FileResponse(path=temp_decrypted_path) holds
\* the path, not the bytes: the file is read when the response is sent, after
\* the handler has returned.  written is what the handler had put in the file.
Download(sid, tid, written) ==
    [session_id |-> sid, transfer_id |-> tid, written |-> written,
     pc |-> "responding", code |-> 0, body |-> <<>>, cleanup |-> "sleeping"]

\* download_file_content from the request to "return response" (or to the
\* HTTPException): the handler has no await, so it runs as one step.  After a
\* success resp holds the response as the handler built it; downloads gets the
\* FileResponse that is still to be sent.
DownloadReturn(sid, tid) ==
    /\ download_file_content(sid, tid)
    /\ downloads' = IF resp'.code = 200
                    THEN Append(downloads, Download(sid, tid, resp'.body))
                    ELSE downloads

\* The server sends the FileResponse of download k: the file at the path is
\* read now.  A missing file is an error of the response ("File at path ...
\* does not exist"); otherwise what the file holds at this moment is the body.
SendFileResponse(k) ==
    LET d == downloads[k]
        file == temp[d.transfer_id]
        code == IF file.exists THEN 200 ELSE 500
        body == IF file.exists THEN file.cells ELSE <<>>
    IN  /\ d.pc = "responding"
        /\ downloads' = [downloads EXCEPT ![k].pc = "sent", ![k].code = code, ![k].body = body]
        /\ resp' = IF file.exists
                   THEN Response("content", d.session_id, d.transfer_id, 200, "", body)
                   ELSE Response("content", d.session_id, d.transfer_id, 500,
                                 "File at path does not exist", <<>>)
        /\ UNCHANGED <<sessions, fileVars, events>>

\* cleanup_temp_file of download k wakes from asyncio.sleep(10) and unlinks the
\* path if it exists.  The ten seconds are taken to be enough for the response
\* of download k itself to have been sent.
cleanup_temp_file(k) ==
    LET d == downloads[k]
    IN  /\ d.cleanup = "sleeping"
        /\ d.pc = "sent"
        /\ downloads' = [downloads EXCEPT ![k].cleanup = "done"]
        /\ temp' = [temp EXCEPT ![d.transfer_id] = NoFile]
        /\ UNCHANGED <<sessions, transfers, up, disk, events, resp>>

\* ------------------------------------------------- the stored container

\* The container of data as the chunk loop writes it after the nonce field: one
\* record per read of chunk_size bytes.
RECURSIVE EncryptAll(_, _, _)
EncryptAll(data, key, nonce) ==
    IF data = <<>> THEN <<>>
    ELSE encrypt_chunk(Take(data, ChunkSize), key, nonce)
           \o EncryptAll(SubSeq(data, ChunkSize + 1, Len(data)), key, nonce)

\* Everything the upload of a transfer has written to its container so far.
Written(tid) ==
    IF up[tid].nonce = <<>> THEN <<>>
    ELSE up[tid].nonce \o EncryptAll(Take(up[tid].data, up[tid].pos), up[tid].aes_key[1], up[tid].nonce)

\* The upload handler of the transfer has ended: its container is at rest.
AtRest(tid) == tid \in DOMAIN up /\ up[tid].pc \in {"returned", "raised"} /\ disk[tid].exists

\* Positions of the cells of a stored container that follow the nonce field:
\* the tag cells and ciphertext cells of its records.
RecordCells(tid) == (NonceCells + 1)..Len(disk[tid].cells)

\* The record cells of a stored container that are not the ones written.
AlteredCells(tid) ==
    LET written == Written(tid)
    IN  { i \in RecordCells(tid) : disk[tid].cells[i] # written[i] }

\* What the storage may hold in place of a cell: a byte, or a tag of another
\* message.
ForgedCells == { ByteCell(v) : v \in Byte } \cup
               { TagCell([ikm |-> <<>>, salt |-> "s0", info |-> "qtransfer-aes"], <<>>, <<>>) }

\* The storage alters one tag or ciphertext cell of a container at rest.
AlterCell(tid, i, cell) ==
    /\ i \in RecordCells(tid)
    /\ cell # disk[tid].cells[i]
    /\ Cardinality(AlteredCells(tid) \cup {i}) <= MaxAltered
    /\ disk' = [disk EXCEPT ![tid].cells[i] = cell]
    /\ UNCHANGED <<sessions, transfers, up, temp, events, resp>>

\* The lengths at which a container ends on a record boundary: after the nonce
\* field and after each record of a full chunk.
RECURSIVE RecordBoundaries(_, _)
RecordBoundaries(from, len) ==
    IF from > len THEN {} ELSE {from} \cup RecordBoundaries(from + ChunkSize + TagCells, len)

\* The storage loses the tail of a container at rest from a record boundary on.
Truncate(tid, len) ==
    /\ len \in RecordBoundaries(NonceCells, Len(disk[tid].cells) - 1)
    /\ disk' = [disk EXCEPT ![tid].cells = Take(disk[tid].cells, len)]
    /\ UNCHANGED <<sessions, transfers, up, temp, events, resp>>

\* The records of a stored container that hold a full chunk, by their number
\* (1-based), and the cells of one of them.
FullRecords(tid) ==
    { r \in 1..Len(disk[tid].cells) :
        NonceCells + r * (ChunkSize + TagCells) <= Len(disk[tid].cells) }

RecordAt(cells, r) ==
    SubSeq(cells, NonceCells + (r - 1) * (ChunkSize + TagCells) + 1,
                  NonceCells + r * (ChunkSize + TagCells))

\* cells with its full record r replaced by record.
PutRecord(cells, r, record) ==
    [i \in 1..Len(cells) |->
        IF /\ i > NonceCells + (r - 1) * (ChunkSize + TagCells)
           /\ i <= NonceCells + r * (ChunkSize + TagCells)
        THEN record[i - (NonceCells + (r - 1) * (ChunkSize + TagCells))]
        ELSE cells[i]]

\* The storage exchanges two full records of a container that is as written.
SwapRecords(tid, r1, r2) ==
    LET cells == disk[tid].cells
    IN  /\ cells = Written(tid)
        /\ r1 < r2
        /\ RecordAt(cells, r1) # RecordAt(cells, r2)
        /\ disk' = [disk EXCEPT ![tid].cells =
                        PutRecord(PutRecord(cells, r1, RecordAt(cells, r2)), r2, RecordAt(cells, r1))]
        /\ UNCHANGED <<sessions, transfers, up, temp, events, resp>>

\* The storage overwrites a full record of a container that is as written with
\* a copy of another one.
ReplaceRecord(tid, r1, r2) ==
    LET cells == disk[tid].cells
    IN  /\ cells = Written(tid)
        /\ r1 # r2
        /\ RecordAt(cells, r1) # RecordAt(cells, r2)
        /\ disk' = [disk EXCEPT ![tid].cells = PutRecord(cells, r1, RecordAt(cells, r2))]
        /\ UNCHANGED <<sessions, transfers, up, temp, events, resp>>

\* ----------------------------------------------------------- specifications

\* A session row after create_session.
QKDSession(n, prof) ==
    [num_qubits |-> n, noise_model |-> prof[1], noise_p |-> prof[2],
     eve_fraction |-> prof[3], eve_strategy |-> "intercept_resend",
     status |-> "created", sifted_key |-> None, sifted_key_length |-> None,
     qber |-> None, aes_key_fingerprint |-> None, qkd_progress |-> Fraction(0, 1),
     error_message |-> None]

\* A fingerprint that leaves the session out of the derivation.
SessionFingerprintNoSalt(bb84_key_hex, sid) ==
    generate_key_fingerprint(derive_aes_key(Some(bb84_key_hex), "").key[1])

\* aes_key_fingerprint as run_qkd_simulation computes it from the key it has
\* just stored: the fingerprint of derive_aes_key(session.sifted_key, session_id).
SessionFingerprint(bb84_key_hex, sid) ==
    generate_key_fingerprint(derive_aes_key(Some(bb84_key_hex), sid).key[1])

\* A session row after a run of run_qkd_simulation that stored the sifted bits
\* 1, 0, 1, 0 (hex "a0") with no sampled error.
KeyedSession(sid) ==
    [QKDSession(MaxQubits, <<"depolarizing", 0, 0>>) EXCEPT
        !.status = "key_derived",
        !.sifted_key = Some(KeyHex(<<1, 0, 1, 0>>)),
        !.sifted_key_length = Some(4),
        !.qber = Some(Fraction(0, 1)),
        !.qkd_progress = Fraction(100, 1),
        !.aes_key_fingerprint = Some(SessionFingerprint(KeyHex(<<1, 0, 1, 0>>), sid))]

SimInit ==
    /\ simPc = "idle"
    /\ simReq = QKDRequest(0, <<"depolarizing", 0, 0>>, "intercept_resend")
    /\ alice_bits = <<>>
    /\ alice_bases = <<>>
    /\ bob_bases = <<>>
    /\ bob_measurements = <<>>
    /\ sifted_positions = <<>>
    /\ sifted_key = <<>>
    /\ simResult = NoResult
    /\ draw = NoDraw

\* The simulation service on its own: the backend does not move.
SimNext ==
    \/ /\ \E req \in Requests : simulate_qkd(req)
       /\ UNCHANGED <<sessions, fileVars, events, resp, qkdTask, downloads, connVars>>
    \/ /\ SimulateQubit
       /\ UNCHANGED <<sessions, fileVars, events, resp, qkdTask, downloads, connVars>>
    \/ /\ SimulateFinish
       /\ UNCHANGED <<sessions, fileVars, events, resp, qkdTask, downloads, connVars>>

\* ------------------------------------------------- api/sessions.py, api/qkd.py

\* POST /create: SessionCreate takes the parameters as they are.
create_session(sid, n, prof) ==
    /\ sid \notin DOMAIN sessions
    /\ sessions' = [s \in DOMAIN sessions \cup {sid} |->
                       IF s = sid THEN QKDSession(n, prof) ELSE sessions[s]]
    /\ resp' = Response("create", sid, 0, 200, "", <<>>)
    /\ UNCHANGED <<fileVars, events, qkdTask>>

QkdEvent(type, sid, payload) == [type |-> type, session_id |-> sid, payload |-> payload]

\* A start that is refused only once a key is stored.
start_qkd_unless_derived(sid) ==
    IF sid \notin DOMAIN sessions
    THEN /\ resp' = Response("start", sid, 0, 404, "Session not found", <<>>)
         /\ UNCHANGED <<sessions, fileVars, events, qkdTask>>
    ELSE IF sessions[sid].status \in {"key_derived", "ready_for_download"}
    THEN /\ resp' = Response("start", sid, 0, 400, "QKD already started or completed", <<>>)
         /\ UNCHANGED <<sessions, fileVars, events, qkdTask>>
    ELSE /\ sessions' = [sessions EXCEPT ![sid].status = "key_exchange",
                                         ![sid].qkd_progress = Fraction(0, 1)]
         /\ qkdTask' = [s \in DOMAIN qkdTask \cup {sid} |->
                           IF s = sid
                           THEN [pc |-> "progress", progress |-> 0,
                                 run |-> IF sid \in DOMAIN qkdTask
                                         THEN qkdTask[sid].run + 1 ELSE 1]
                           ELSE qkdTask[s]]
         /\ events' = Append(events, QkdEvent("qkd_started", sid, <<>>))
         /\ resp' = Response("start", sid, 0, 200, "QKD simulation started", <<>>)
         /\ UNCHANGED fileVars

\* A start that looks at nothing but the existence of the session.
start_qkd_any_status(sid) ==
    IF sid \notin DOMAIN sessions
    THEN /\ resp' = Response("start", sid, 0, 404, "Session not found", <<>>)
         /\ UNCHANGED <<sessions, fileVars, events, qkdTask>>
    ELSE /\ sessions' = [sessions EXCEPT ![sid].status = "key_exchange",
                                         ![sid].qkd_progress = Fraction(0, 1)]
         /\ qkdTask' = [s \in DOMAIN qkdTask \cup {sid} |->
                           IF s = sid
                           THEN [pc |-> "progress", progress |-> 0,
                                 run |-> IF sid \in DOMAIN qkdTask
                                         THEN qkdTask[sid].run + 1 ELSE 1]
                           ELSE qkdTask[s]]
         /\ events' = Append(events, QkdEvent("qkd_started", sid, <<>>))
         /\ resp' = Response("start", sid, 0, 200, "QKD simulation started", <<>>)
         /\ UNCHANGED fileVars

\* POST /{session_id}/start
start_qkd(sid) ==
    IF sid \notin DOMAIN sessions
    THEN /\ resp' = Response("start", sid, 0, 404, "Session not found", <<>>)
         /\ UNCHANGED <<sessions, fileVars, events, qkdTask>>
    ELSE IF sessions[sid].status \notin {"created", "failed"}
    THEN /\ resp' = Response("start", sid, 0, 400, "QKD already started or completed", <<>>)
         /\ UNCHANGED <<sessions, fileVars, events, qkdTask>>
    ELSE /\ sessions' = [sessions EXCEPT ![sid].status = "key_exchange",
                                         ![sid].qkd_progress = Fraction(0, 1)]
         /\ qkdTask' = [s \in DOMAIN qkdTask \cup {sid} |->
                           IF s = sid
                           THEN [pc |-> "progress", progress |-> 0,
                                 run |-> IF sid \in DOMAIN qkdTask
                                         THEN qkdTask[sid].run + 1 ELSE 1]
                           ELSE qkdTask[s]]
         /\ events' = Append(events, QkdEvent("qkd_started", sid, <<>>))
         /\ resp' = Response("start", sid, 0, 200, "QKD simulation started", <<>>)
         /\ UNCHANGED fileVars

\* One iteration of "for progress in range(0, 101, 10)" of run_qkd_simulation.
QkdProgress(sid) ==
    LET task == qkdTask[sid]
    IN  /\ task.pc = "progress"
        /\ task.progress <= ProgressEnd
        /\ sessions' = [sessions EXCEPT ![sid].qkd_progress = Fraction(task.progress, 1)]
        /\ events' = Append(events, QkdEvent("qkd_progress", sid, <<task.progress>>))
        /\ qkdTask' = [qkdTask EXCEPT ![sid].progress = task.progress + ProgressStep]
        /\ UNCHANGED <<fileVars, resp>>

\* The same iteration when its broadcast raises (see QkdCompletedRaise): the
\* progress is committed, the except branch stores "failed" and broadcasts
\* qkd_error, and the run ends.
QkdProgressRaise(sid) ==
    LET task == qkdTask[sid]
    IN  /\ task.pc = "progress"
        /\ task.progress <= ProgressEnd
        /\ sessions' = [sessions EXCEPT ![sid].qkd_progress = Fraction(task.progress, 1),
                                        ![sid].status = "failed",
                                        ![sid].error_message = Some("ValueError")]
        /\ events' = events \o <<QkdEvent("qkd_progress", sid, <<task.progress>>),
                                  QkdEvent("qkd_error", sid, <<"ValueError">>)>>
        /\ qkdTask' = [qkdTask EXCEPT ![sid].pc = "done"]
        /\ UNCHANGED <<fileVars, resp>>

\* qkd_request of run_qkd_simulation, as QiskitClient.simulate_bb84 posts it.
SessionRequest(session) ==
    [num_qubits |-> session.num_qubits, noise_model |-> session.noise_model,
     noise_p |-> session.noise_p, eve_fraction |-> session.eve_fraction,
     eve_strategy |-> session.eve_strategy, fast_mode |-> TRUE]

\* QiskitClient._local_simulation: the results it can return.
LocalSimulation(params) ==
    LET sifted_key_length == IF params.num_qubits \div FallbackDivisor > FallbackMinBits
                             THEN params.num_qubits \div FallbackDivisor
                             ELSE FallbackMinBits
        qber == Fraction(params.eve_fraction, 400)
    IN  { [status |-> "ok",
           sifted_key |-> KeyHexUnpadded(random_bits),
           sifted_key_length |-> sifted_key_length,
           qber |-> qber,
           sample_positions |-> <<0, 1, 2, 3, 4>>,
           sample_values |-> <<0, 1, 0, 1, 0>>,
           alice_bases |-> <<"Z", "X", "Z", "X", "Z">>,
           bob_bases |-> <<"Z", "Z", "X", "X", "Z">>,
           bob_measurements |-> <<0, 1, 0, 1, 0>>,
           eve_detected |-> AboveThreshold(qber)] :
        random_bits \in [1..sifted_key_length -> Bit] }

\* run_qkd_simulation from the result of simulate_bb84 to the await of the
\* qkd_completed broadcast, or, when the key derivation raises, through the
\* except branch.
QkdStore(sid, qkd_result) ==
    LET derived == derive_aes_key(Some(qkd_result.sifted_key), sid)
        stored == [sessions[sid] EXCEPT !.sifted_key = Some(qkd_result.sifted_key),
                                        !.sifted_key_length = Some(qkd_result.sifted_key_length),
                                        !.qber = Some(qkd_result.qber),
                                        !.status = "key_derived",
                                        !.qkd_progress = Fraction(100, 1)]
    IN  IF derived.ok
        THEN LET fingerprint == SessionFingerprint(qkd_result.sifted_key, sid)
             IN  /\ sessions' = [sessions EXCEPT
                                    ![sid] = [stored EXCEPT !.aes_key_fingerprint = Some(fingerprint)]]
                 /\ events' = Append(events,
                        QkdEvent("qkd_completed", sid,
                                 <<[qber |-> qkd_result.qber,
                                    key_length |-> qkd_result.sifted_key_length,
                                    key_fingerprint |-> fingerprint,
                                    eve_detected |-> qkd_result.eve_detected]>>))
                 /\ qkdTask' = [qkdTask EXCEPT ![sid].pc = "completed_broadcast"]
        ELSE /\ sessions' = [sessions EXCEPT
                                ![sid] = [stored EXCEPT !.status = "failed",
                                                        !.error_message = Some(derived.error)]]
             /\ events' = Append(events, QkdEvent("qkd_error", sid, <<derived.error>>))
             /\ qkdTask' = [qkdTask EXCEPT ![sid].pc = "done"]

\* The broadcast of qkd_completed returns: the run ends.
QkdCompleted(sid) ==
    /\ qkdTask[sid].pc = "completed_broadcast"
    /\ qkdTask' = [qkdTask EXCEPT ![sid].pc = "done"]
    /\ UNCHANGED <<sessions, fileVars, events, resp>>

\* The broadcast of qkd_completed raises.  broadcast_to_session catches what a
\* send raises, but its removal loop, active_connections[session_id]
\* .remove(connection), raises a KeyError or a ValueError when the websocket
\* endpoint's disconnect() has removed the connection (and the emptied entry)
\* while the broadcast was suspended at a send.  run_qkd_simulation does not
\* guard the call: the except branch stores "failed" over the stored result
\* and broadcasts qkd_error.
QkdCompletedRaise(sid) ==
    /\ qkdTask[sid].pc = "completed_broadcast"
    /\ sessions' = [sessions EXCEPT ![sid].status = "failed",
                                    ![sid].error_message = Some("ValueError")]
    /\ events' = Append(events, QkdEvent("qkd_error", sid, <<"ValueError">>))
    /\ qkdTask' = [qkdTask EXCEPT ![sid].pc = "done"]
    /\ UNCHANGED <<fileVars, resp>>

\* The loop has ended: requests.post hands the request to the simulation
\* service.  The call blocks the event loop until the service answers.
QkdCallService(sid) ==
    /\ qkdTask[sid].pc = "progress"
    /\ qkdTask[sid].progress > ProgressEnd
    /\ simulate_qkd(SessionRequest(sessions[sid]))
    /\ qkdTask' = [qkdTask EXCEPT ![sid].pc = "waiting"]
    /\ UNCHANGED <<sessions, fileVars, events, resp>>

\* response.json() of the service's answer is stored.
QkdServiceResult(sid) ==
    /\ qkdTask[sid].pc = "waiting"
    /\ simPc = "done"
    /\ QkdStore(sid, simResult)
    /\ simPc' = "idle"
    /\ simReq' = QKDRequest(0, <<"depolarizing", 0, 0>>, "intercept_resend")
    /\ alice_bits' = <<>>
    /\ alice_bases' = <<>>
    /\ bob_bases' = <<>>
    /\ bob_measurements' = <<>>
    /\ sifted_positions' = <<>>
    /\ sifted_key' = <<>>
    /\ simResult' = NoResult
    /\ UNCHANGED <<fileVars, resp, draw>>

\* requests.post raises a RequestException: the local simulation answers.
QkdFallback(sid) ==
    /\ qkdTask[sid].pc = "progress"
    /\ qkdTask[sid].progress > ProgressEnd
    /\ \E qkd_result \in LocalSimulation(SessionRequest(sessions[sid])) :
          QkdStore(sid, qkd_result)
    /\ UNCHANGED <<fileVars, resp, simVars>>

\* GET /{session_id}/result
get_qkd_result(sid) ==
    /\ UNCHANGED <<sessions, fileVars, events, qkdTask>>
    /\ IF sid \notin DOMAIN sessions
       THEN resp' = Response("result", sid, 0, 404, "Session not found", <<>>)
       ELSE IF sessions[sid].status # "key_derived"
       THEN resp' = Response("result", sid, 0, 400, "QKD not completed", <<>>)
       ELSE resp' = Response("result", sid, 0, 200, "",
                        <<[qber |-> sessions[sid].qber,
                           key_length |-> sessions[sid].sifted_key_length,
                           key_fingerprint |-> sessions[sid].aes_key_fingerprint,
                           eve_detected |-> IF sessions[sid].qber # None
                                            THEN AboveThreshold(sessions[sid].qber[1])
                                            ELSE FALSE]>>)

\* ------------------------------------------ core/connection_manager.py

\* The websockets clients open (one object per connection), and the session
\* they connect to.
Websockets == {"w1", "w2"}
ManagerSessions == {"s1"}

\* "connection in list"
InList(list, connection) == \E i \in DOMAIN list : list[i] = connection

\* list.remove(connection) on a list that holds it: the first occurrence goes.
ListRemove(list, connection) ==
    LET i == CHOOSE i \in DOMAIN list :
                 /\ list[i] = connection
                 /\ \A j \in 1..(i - 1) : list[j] # connection
    IN  SubSeq(list, 1, i - 1) \o SubSeq(list, i + 1, Len(list))

\* A websocket_endpoint call: "new" before connect() has registered the
\* websocket, "receiving" in its receive loop, "disconnected" or "raised"
\* after the except branch has called disconnect().
Endpoint(pc, sid, error) == [pc |-> pc, session_id |-> sid, error |-> error]

ConnInit ==
    /\ active_connections = <<>>
    /\ endpoints = [ws \in Websockets |-> Endpoint("new", "", "")]
    /\ broadcasts = <<>>

\* ConnectionManager.connect once websocket.accept() has returned; the endpoint
\* goes on to its receive loop.
connect(ws, sid) ==
    /\ endpoints[ws].pc = "new"
    /\ active_connections' =
          [s \in DOMAIN active_connections \cup {sid} |->
              IF s = sid
              THEN (IF sid \in DOMAIN active_connections
                    THEN active_connections[sid] ELSE <<>>) \o <<ws>>
              ELSE active_connections[s]]
    /\ endpoints' = [endpoints EXCEPT ![ws] = Endpoint("receiving", sid, "")]
    /\ UNCHANGED broadcasts

\* ConnectionManager.disconnect on a registry: the error it raises ("" when it
\* returns), the registry it leaves, and whether it deleted the session's entry.
disconnect(registry, ws, sid) ==
    IF sid \notin DOMAIN registry
    THEN [error |-> "", registry |-> registry, deleted |-> FALSE]
    ELSE IF ~InList(registry[sid], ws)
    THEN [error |-> "ValueError", registry |-> registry, deleted |-> FALSE]
    ELSE LET rest == ListRemove(registry[sid], ws)
         IN  IF rest = <<>>
             THEN [error |-> "",
                   registry |-> [s \in DOMAIN registry \ {sid} |-> registry[s]],
                   deleted |-> TRUE]
             ELSE [error |-> "", registry |-> [registry EXCEPT ![sid] = rest],
                   deleted |-> FALSE]

\* websocket_endpoint: receive_text raises WebSocketDisconnect and the except
\* branch calls disconnect().  A broadcast suspended at a send keeps iterating
\* the list object it started with: when disconnect() deletes the entry, that
\* list is the emptied one, whatever connect() registers afterwards.
WebSocketDisconnect(ws) ==
    LET sid == endpoints[ws].session_id
        result == disconnect(active_connections, ws, sid)
    IN  /\ endpoints[ws].pc = "receiving"
        /\ active_connections' = result.registry
        /\ endpoints' = [endpoints EXCEPT
                            ![ws].pc = IF result.error = "" THEN "disconnected" ELSE "raised",
                            ![ws].error = result.error]
        /\ broadcasts' = [b \in DOMAIN broadcasts |->
                             IF /\ result.deleted
                                /\ broadcasts[b].session_id = sid
                                /\ broadcasts[b].pc = "sending"
                             THEN [broadcasts[b] EXCEPT !.orphaned = TRUE]
                             ELSE broadcasts[b]]

\* "for connection in disconnected: self.active_connections[session_id]
\* .remove(connection)": the error the loop raises ("" when it ends) and the
\* registry it leaves.
RECURSIVE RemoveDisconnected(_, _, _)
RemoveDisconnected(registry, sid, disconnected) ==
    IF disconnected = <<>> THEN [error |-> "", registry |-> registry]
    ELSE IF sid \notin DOMAIN registry THEN [error |-> "KeyError", registry |-> registry]
    ELSE IF ~InList(registry[sid], Head(disconnected))
    THEN [error |-> "ValueError", registry |-> registry]
    ELSE RemoveDisconnected(
             [registry EXCEPT ![sid] = ListRemove(registry[sid], Head(disconnected))],
             sid, Tail(disconnected))

\* The list the for loop of a broadcast iterates, as it is now.
IteratedList(call) ==
    IF call.orphaned \/ call.session_id \notin DOMAIN active_connections
    THEN <<>>
    ELSE active_connections[call.session_id]

\* A call of broadcast_to_session: its position, the index of its list
\* iterator, the connection whose send it awaits, the connections it has sent
\* to and those whose send failed.
Broadcast(sid, pc, idx, current) ==
    [session_id |-> sid, pc |-> pc, idx |-> idx, current |-> current,
     attempted |-> <<>>, disconnected |-> <<>>, orphaned |-> FALSE, error |-> ""]

\* broadcast_to_session from the call to the await of the first send, or to
\* its return when the session has no entry or an empty list.
BroadcastStart(sid) ==
    /\ broadcasts' = Append(broadcasts,
          IF sid \in DOMAIN active_connections /\ active_connections[sid] # <<>>
          THEN Broadcast(sid, "sending", 1, active_connections[sid][1])
          ELSE Broadcast(sid, "returned", 0, ""))
    /\ UNCHANGED <<active_connections, endpoints>>

\* The awaited send of call b returns or raises (failed): the connection is
\* noted, and the loop goes on to the await of the next send or, when the
\* iterator is exhausted, to the removal loop and the end of the call.
BroadcastSendReturn(b, failed) ==
    LET call == broadcasts[b]
        list == IteratedList(call)
        noted == [call EXCEPT !.attempted = Append(call.attempted, call.current),
                              !.disconnected = IF failed
                                               THEN Append(call.disconnected, call.current)
                                               ELSE call.disconnected]
        removal == RemoveDisconnected(active_connections, call.session_id,
                                      noted.disconnected)
    IN  /\ call.pc = "sending"
        /\ IF call.idx < Len(list)
           THEN /\ broadcasts' = [broadcasts EXCEPT
                                     ![b] = [noted EXCEPT !.idx = call.idx + 1,
                                                          !.current = list[call.idx + 1]]]
                /\ UNCHANGED active_connections
           ELSE /\ broadcasts' = [broadcasts EXCEPT
                                     ![b] = [noted EXCEPT
                                                !.pc = IF removal.error = ""
                                                       THEN "returned" ELSE "raised",
                                                !.current = "",
                                                !.error = removal.error]]
                /\ active_connections' = removal.registry
        /\ UNCHANGED endpoints

\* The backend once the key exchange of sessions s1 and s2 has completed and
\* session s3 has been created: no transfer exists yet.
FileInit ==
    /\ sessions = [sid \in KeyedSessions \cup {UnkeyedSession} |->
                      IF sid \in KeyedSessions THEN KeyedSession(sid)
                      ELSE QKDSession(MaxQubits, <<"depolarizing", 0, 0>>)]
    /\ transfers = <<>>
    /\ up = <<>>
    /\ disk = <<>>
    /\ temp = <<>>
    /\ events = <<>>
    /\ resp = NoResponse
    /\ qkdTask = <<>>
    /\ downloads = <<>>
    /\ ConnInit

\* Stored keys that are not valid hex: one of odd length, one with a character
\* that is no hex digit.
MalformedKeys == [s2 |-> <<"a">>, s3 |-> <<"z", "0">>]
MalformedSessions == DOMAIN MalformedKeys

\* The files uploaded, and the number of uploads made, while sessions with
\* malformed keys are followed.
MalformedFiles == { <<1, 0, 1>> }
MalformedTransfers == 2

\* The session table read by the handlers when the sifted_key column of s2 and
\* of s3 holds a malformed string and s1 holds a key the exchange derived.
MalformedInit ==
    /\ sessions = [sid \in {"s1"} \cup MalformedSessions |->
                      IF sid \in MalformedSessions
                      THEN [KeyedSession(sid) EXCEPT !.sifted_key = Some(MalformedKeys[sid]),
                                                     !.sifted_key_length = Some(Len(MalformedKeys[sid])),
                                                     !.aes_key_fingerprint = None]
                      ELSE KeyedSession(sid)]
    /\ transfers = <<>>
    /\ up = <<>>
    /\ disk = <<>>
    /\ temp = <<>>
    /\ events = <<>>
    /\ resp = NoResponse
    /\ qkdTask = <<>>
    /\ downloads = <<>>
    /\ ConnInit

\* The sessions whose clients download, and the file uploaded, while the
\* sending of responses is followed.
ServeSessions == {"s1", "s2"}
ServeFiles == { <<1, 0, 1>> }

TransferIds == 1..MaxTransfers

\* The requests of the file-transfer handlers made on behalf of the sessions
\* sids, and the steps of the uploads in progress.
FileStep(sids) ==
    \/ /\ Len(transfers) < MaxTransfers
       /\ \E sid \in sids, data \in Files : upload_file(sid, data)
       /\ UNCHANGED <<qkdTask, simVars, downloads, connVars>>
    \/ \E tid \in DOMAIN transfers :
          /\ \/ UploadChunk(tid)
             \/ UploadResume(tid)
             \/ UploadStreamError(tid)
             \/ UploadFinish(tid)
             \/ UploadReturn(tid)
             \/ UploadRaise(tid)
          /\ UNCHANGED <<qkdTask, simVars, downloads, connVars>>
    \/ /\ \E sid \in sids, tid \in TransferIds : download_file_info(sid, tid)
       /\ UNCHANGED <<qkdTask, simVars, downloads, connVars>>
    \/ /\ \E sid \in sids, tid \in TransferIds : download_file_content(sid, tid)
       /\ UNCHANGED <<qkdTask, simVars, downloads, connVars>>

FileNext == FileStep(SessionIds)

\* The sessions whose requests are followed on a storage that alters containers.
TamperSessions == {"s1"}

TamperNext ==
    \/ FileStep(TamperSessions)
    \/ /\ \E tid \in DOMAIN transfers :
             /\ AtRest(tid)
             /\ \E i \in RecordCells(tid), cell \in ForgedCells : AlterCell(tid, i, cell)
       /\ UNCHANGED <<qkdTask, simVars, downloads, connVars>>
    \/ /\ \E tid \in DOMAIN transfers :
             /\ AtRest(tid)
             /\ \E len \in NonceCells..Len(disk[tid].cells) : Truncate(tid, len)
       /\ UNCHANGED <<qkdTask, simVars, downloads, connVars>>

ReorderNext ==
    \/ FileStep(TamperSessions)
    \/ /\ \E tid \in DOMAIN transfers :
             /\ AtRest(tid)
             /\ \E r1, r2 \in FullRecords(tid) : SwapRecords(tid, r1, r2)
       /\ UNCHANGED <<qkdTask, simVars, downloads, connVars>>
    \/ /\ \E tid \in DOMAIN transfers :
             /\ AtRest(tid)
             /\ \E r1, r2 \in FullRecords(tid) : ReplaceRecord(tid, r1, r2)
       /\ UNCHANGED <<qkdTask, simVars, downloads, connVars>>

\* The backend after construction: no session, no transfer.
QkdInit ==
    /\ sessions = <<>>
    /\ transfers = <<>>
    /\ up = <<>>
    /\ disk = <<>>
    /\ temp = <<>>
    /\ events = <<>>
    /\ resp = NoResponse
    /\ qkdTask = <<>>
    /\ downloads = <<>>
    /\ ConnInit

\* The file-transfer handlers on behalf of a session with a derived key and of
\* the sessions whose stored key is malformed; the clients upload one file
\* after the other.
MalformedNext ==
    \/ /\ Len(transfers) < MalformedTransfers
       /\ \A tid \in DOMAIN up : up[tid].pc \in {"returned", "raised"}
       /\ \E sid \in DOMAIN sessions, data \in MalformedFiles : upload_file(sid, data)
       /\ UNCHANGED <<qkdTask, simVars, downloads, connVars>>
    \/ \E tid \in DOMAIN transfers :
          /\ \/ UploadChunk(tid)
             \/ UploadResume(tid)
             \/ UploadStreamError(tid)
             \/ UploadFinish(tid)
             \/ UploadReturn(tid)
             \/ UploadRaise(tid)
          /\ UNCHANGED <<qkdTask, simVars, downloads, connVars>>
    \/ /\ \E sid \in DOMAIN sessions, tid \in DOMAIN transfers : download_file_info(sid, tid)
       /\ UNCHANGED <<qkdTask, simVars, downloads, connVars>>
    \/ /\ \E sid \in DOMAIN sessions, tid \in DOMAIN transfers : download_file_content(sid, tid)
       /\ UNCHANGED <<qkdTask, simVars, downloads, connVars>>

\* The session concurrent upload requests are sent to, and the file they carry.
UploadsSessions == {"s1"}
UploadsFiles == { <<1, 0, 1>> }

\* Upload requests to one session that the server handles concurrently: a
\* request is accepted while the handler of an earlier one is suspended at an
\* await (file.read or a broadcast).
UploadsNext ==
    \/ /\ Len(transfers) < MaxUploads
       /\ \E sid \in UploadsSessions, data \in UploadsFiles : upload_file(sid, data)
       /\ UNCHANGED <<qkdTask, simVars, downloads, connVars>>
    \/ \E tid \in DOMAIN transfers :
          /\ \/ UploadChunk(tid)
             \/ UploadResume(tid)
             \/ UploadStreamError(tid)
             \/ UploadFinish(tid)
             \/ UploadReturn(tid)
             \/ UploadRaise(tid)
          /\ UNCHANGED <<qkdTask, simVars, downloads, connVars>>

\* The connection registry: clients connect and disconnect while broadcasts to
\* their session are in progress, and any send may fail.
ManagerNext ==
    \/ /\ \E ws \in Websockets, sid \in ManagerSessions : connect(ws, sid)
       /\ UNCHANGED <<sessions, fileVars, events, resp, qkdTask, simVars, downloads>>
    \/ /\ \E ws \in Websockets : WebSocketDisconnect(ws)
       /\ UNCHANGED <<sessions, fileVars, events, resp, qkdTask, simVars, downloads>>
    \/ /\ Len(broadcasts) < MaxBroadcasts
       /\ \E sid \in ManagerSessions : BroadcastStart(sid)
       /\ UNCHANGED <<sessions, fileVars, events, resp, qkdTask, simVars, downloads>>
    \/ /\ \E b \in DOMAIN broadcasts, failed \in BOOLEAN : BroadcastSendReturn(b, failed)
       /\ UNCHANGED <<sessions, fileVars, events, resp, qkdTask, simVars, downloads>>

\* Uploads and downloads of file contents, with each FileResponse sent in a
\* step of its own and each cleanup task run in a step of its own.
ServeNext ==
    \/ /\ Len(transfers) < MaxTransfers
       /\ \E sid \in ServeSessions, data \in ServeFiles : upload_file(sid, data)
       /\ UNCHANGED <<qkdTask, simVars, downloads, connVars>>
    \/ \E tid \in DOMAIN transfers :
          /\ \/ UploadChunk(tid)
             \/ UploadResume(tid)
             \/ UploadStreamError(tid)
             \/ UploadFinish(tid)
             \/ UploadReturn(tid)
             \/ UploadRaise(tid)
          /\ UNCHANGED <<qkdTask, simVars, downloads, connVars>>
    \/ /\ Len(downloads) < MaxDownloads
       /\ \E sid \in ServeSessions, tid \in TransferIds : DownloadReturn(sid, tid)
       /\ UNCHANGED <<qkdTask, simVars, connVars>>
    \/ /\ \E k \in DOMAIN downloads : SendFileResponse(k)
       /\ UNCHANGED <<qkdTask, simVars, connVars>>
    \/ /\ \E k \in DOMAIN downloads : cleanup_temp_file(k)
       /\ UNCHANGED <<qkdTask, simVars, connVars>>

\* The session the key-exchange specification follows, and the parameters it
\* is created with.
QkdSessions == {"s1"}
QkdProfiles == { <<"depolarizing", 0, 0>>, <<"depolarizing", 100, 0>>, <<"depolarizing", 0, 100>> }
QkdQubits == {0, 1, MaxQubits}

\* While requests.post waits for the service no handler of the backend runs.
ServiceIdle == \A s \in DOMAIN qkdTask : qkdTask[s].pc # "waiting"

QkdNext ==
    \/ /\ ServiceIdle
       /\ \E sid \in QkdSessions, n \in QkdQubits, prof \in QkdProfiles :
             create_session(sid, n, prof)
       /\ UNCHANGED <<simVars, downloads, connVars>>
    \/ /\ ServiceIdle
       /\ \E sid \in QkdSessions : start_qkd(sid)
       /\ UNCHANGED <<simVars, downloads, connVars>>
    \/ /\ ServiceIdle
       /\ \E sid \in DOMAIN qkdTask : QkdProgress(sid)
       /\ UNCHANGED <<simVars, downloads, connVars>>
    \/ /\ ServiceIdle
       /\ \E sid \in DOMAIN qkdTask : QkdCallService(sid)
       /\ UNCHANGED <<downloads, connVars>>
    \/ /\ ServiceIdle
       /\ \E sid \in DOMAIN qkdTask : QkdFallback(sid)
       /\ UNCHANGED <<downloads, connVars>>
    \/ /\ (SimulateQubit \/ SimulateFinish)
       /\ UNCHANGED <<sessions, fileVars, events, resp, qkdTask, downloads, connVars>>
    \/ /\ \E sid \in DOMAIN qkdTask : QkdServiceResult(sid)
       /\ UNCHANGED <<downloads, connVars>>
    \/ /\ ServiceIdle
       /\ \E sid \in DOMAIN qkdTask : QkdCompleted(sid)
       /\ UNCHANGED <<simVars, downloads, connVars>>
    \/ /\ ServiceIdle
       /\ \E sid \in QkdSessions : get_qkd_result(sid)
       /\ UNCHANGED <<simVars, downloads, connVars>>

\* The session whose life is followed, the qubit counts it is created with and
\* the files uploaded to it: one of two chunks and one that is too large.
LifeSessions == {"s1"}
LifeQubits == {1}
LifeFiles == { <<1, 0, 1>>, [i \in 1..(MAX_FILE_SIZE + 1) |-> 1] }

\* The runs start_qkd has scheduled for a session so far.
RunsStarted(sid) ==
    Cardinality({ k \in 1..Len(events) :
                    events[k].type = "qkd_started" /\ events[k].session_id = sid })

\* A session from its creation: the key exchange with the simulation service,
\* with broadcasts that return and broadcasts that raise, restarts after a
\* failure, and the upload and the download of a file.  The client sends no
\* start request while an upload of its own is in progress.
LifeNext ==
    \/ /\ ServiceIdle
       /\ \E sid \in LifeSessions, n \in LifeQubits :
             create_session(sid, n, <<"depolarizing", 0, 0>>)
       /\ UNCHANGED <<simVars, downloads, connVars>>
    \/ /\ ServiceIdle
       /\ \E sid \in LifeSessions :
             /\ sid \in DOMAIN sessions
             /\ RunsStarted(sid) < MaxRuns \/ sessions[sid].status \notin {"created", "failed"}
             /\ \A tid \in DOMAIN up : up[tid].pc \in {"returned", "raised"}
             /\ start_qkd(sid)
       /\ UNCHANGED <<simVars, downloads, connVars>>
    \/ /\ ServiceIdle
       /\ \E sid \in DOMAIN qkdTask : QkdProgress(sid)
       /\ UNCHANGED <<simVars, downloads, connVars>>
    \/ /\ ServiceIdle
       /\ \E sid \in DOMAIN qkdTask : QkdProgressRaise(sid)
       /\ UNCHANGED <<simVars, downloads, connVars>>
    \/ /\ ServiceIdle
       /\ \E sid \in DOMAIN qkdTask : QkdCallService(sid)
       /\ UNCHANGED <<downloads, connVars>>
    \/ /\ (SimulateQubit \/ SimulateFinish)
       /\ UNCHANGED <<sessions, fileVars, events, resp, qkdTask, downloads, connVars>>
    \/ /\ \E sid \in DOMAIN qkdTask : QkdServiceResult(sid)
       /\ UNCHANGED <<downloads, connVars>>
    \/ /\ ServiceIdle
       /\ \E sid \in DOMAIN qkdTask : QkdCompleted(sid)
       /\ UNCHANGED <<simVars, downloads, connVars>>
    \/ /\ ServiceIdle
       /\ \E sid \in DOMAIN qkdTask : QkdCompletedRaise(sid)
       /\ UNCHANGED <<simVars, downloads, connVars>>
    \/ /\ ServiceIdle
       /\ Len(transfers) < MaxTransfers
       /\ \E sid \in LifeSessions, data \in LifeFiles : upload_file(sid, data)
       /\ UNCHANGED <<qkdTask, simVars, downloads, connVars>>
    \/ /\ ServiceIdle
       /\ \E tid \in DOMAIN transfers :
             \/ UploadChunk(tid)
             \/ UploadResume(tid)
             \/ UploadStreamError(tid)
             \/ UploadFinish(tid)
             \/ UploadReturn(tid)
             \/ UploadRaise(tid)
       /\ UNCHANGED <<qkdTask, simVars, downloads, connVars>>
    \/ /\ ServiceIdle
       /\ \E sid \in LifeSessions, tid \in DOMAIN transfers : download_file_content(sid, tid)
       /\ UNCHANGED <<qkdTask, simVars, downloads, connVars>>

Init == SimInit /\ FileInit

InitQkd == SimInit /\ QkdInit

InitMalformed == SimInit /\ MalformedInit

\* The simulator after its sifting loop, for every sifted key of at most
\* MaxKeyBits bits.
InitKey ==
    /\ FileInit
    /\ simPc = "sifted"
    /\ simReq = QKDRequest(MaxKeyBits, <<"depolarizing", 0, 0>>, "intercept_resend")
    /\ alice_bits = <<>>
    /\ alice_bases = <<>>
    /\ bob_bases = <<>>
    /\ bob_measurements = <<>>
    /\ sifted_positions = <<>>
    /\ sifted_key \in UNION { [1..n -> Bit] : n \in 0..MaxKeyBits }
    /\ simResult = NoResult
    /\ draw = NoDraw

KeyNext ==
    \/ /\ EncodeKey
       /\ UNCHANGED <<sessions, fileVars, events, resp, qkdTask, downloads, connVars>>

\* The file-transfer handlers of the backend, for sessions that hold a key.
Spec == Init /\ [][FileNext]_vars

\* The same, on a storage that may alter or truncate the containers it holds.
SpecTamper == Init /\ [][TamperNext]_vars

\* The same, on a storage that may put the records of a container it holds in
\* another order.
SpecReorder == Init /\ [][ReorderNext]_vars

\* The file handlers when a stored key is not valid hex.
SpecMalformed == InitMalformed /\ [][MalformedNext]_vars

\* The file handlers with the sending of download responses and the cleanup
\* tasks as steps of their own.
SpecServe == Init /\ [][ServeNext]_vars

\* Concurrent upload requests to one session.
SpecUploads == Init /\ [][UploadsNext]_vars

\* The connection manager and the websocket endpoints.
SpecManager == Init /\ [][ManagerNext]_vars

\* The transmission loop of the simulator with the draws of each iteration kept.
SpecChannel == Init /\ [][ChannelNext]_vars

\* The hex encoding of the simulator, for sifted keys of more than one byte.
SpecKey == InitKey /\ [][KeyNext]_vars

\* The key exchange of one session, from its creation, with the simulation
\* service, when every broadcast returns.
SpecQkd == InitQkd /\ [][QkdNext]_vars

\* The life of one session: key exchange, restarts, upload and download.
SpecLife == InitQkd /\ [][LifeNext]_vars

\* The simulation service alone.
SpecSim == Init /\ [][SimNext]_vars

\* --------------------------------------------------------------- properties

\* The upload handler of a transfer has stored its results: the transfer is
\* ready and the container is closed.
UploadCompleted(tid) == up[tid].pc \in {"completed_broadcast", "returned"}

\* The upload handler of a transfer is in its chunk loop, or has aborted.
UploadPartial(tid) == up[tid].pc \in {"read", "progress_broadcast", "error_broadcast", "raised"}

WrittenCells(tid) == disk[tid].cells \o up[tid].buf
TagPositions(tid) == { i \in 1..Len(WrittenCells(tid)) : WrittenCells(tid)[i].tag # <<>> }
KeyNonce(cell) == <<cell.tag[1], cell.tag[2]>>

\* C2: per-chunk nonce uniqueness.  Within one file no two chunks are encrypted
\* under the same (key, nonce) pair.
C2_NonceUnique ==
    \A tid \in DOMAIN transfers :
        \A i, j \in TagPositions(tid) :
            i # j => KeyNonce(WrittenCells(tid)[i]) # KeyNonce(WrittenCells(tid)[j])

\* C3: tamper detection.  A download of a container in which a tag cell or a
\* ciphertext cell of a record is not the one written fails on the
\* authentication of a chunk, and its response carries no byte of the file.
C3_TamperDetected ==
    [][ \A tid \in DOMAIN transfers :
          (/\ disk[tid].exists
           /\ AlteredCells(tid) # {}
           /\ download_file_content(transfers[tid].session_id, tid))
            => (resp'.code = 500 /\ resp'.detail = "InvalidTag" /\ resp'.body = <<>>) ]_vars

\* A download has failed on an altered record after it had decrypted the
\* records before it.
C3_Witness ==
    \E tid \in DOMAIN transfers :
        /\ AtRest(tid)
        /\ AlteredCells(tid) # {}
        /\ resp.op = "content" /\ resp.transfer_id = tid
        /\ resp.code = 500 /\ resp.detail = "InvalidTag" /\ resp.body = <<>>
        /\ temp[tid].exists /\ temp[tid].cells # <<>>

\* C4: partially written output is never exposed.  While the upload of a
\* transfer is in its chunk loop or has aborted, the transfer is not marked
\* ready (or decrypting, which follows ready) and no download of it has
\* answered with a file.
C4_PartialNeverExposed ==
    \A tid \in DOMAIN transfers :
        UploadPartial(tid) =>
            /\ transfers[tid].status \notin {"ready", "decrypting"}
            /\ ~(resp.op = "content" /\ resp.transfer_id = tid /\ resp.code = 200)

\* The positions (1-based) at which Alice's and Bob's bases agree.
MatchingPositions == { i \in 1..Len(alice_bases) : alice_bases[i] = bob_bases[i] }

\* C5: sifting.  When a simulation run has ended, the sifted key is Alice's
\* bits at the positions where the bases agree, in increasing order of the
\* position, and sifted_key_length is the number of these positions.
C5_Sifting ==
    simPc = "done" =>
        /\ Len(sifted_key) = Cardinality(MatchingPositions)
        /\ simResult.sifted_key_length = Cardinality(MatchingPositions)
        /\ \A i \in MatchingPositions :
               sifted_key[Cardinality({ j \in MatchingPositions : j <= i })] = alice_bits[i]

\* A run has ended in which the first position was sifted out and two sifted
\* positions carry different bits.
C5_Witness ==
    /\ simPc = "done"
    /\ 1 \notin MatchingPositions
    /\ Len(sifted_key) >= 2
    /\ sifted_key[1] # sifted_key[2]
    /\ simResult.sifted_key_length = Len(sifted_key)

\* eve_detected as the specification defines it, for a session's eve_fraction
\* (in percent) and a QBER.
EveDetected(eve_fraction, qber) == eve_fraction > 0 /\ AboveThreshold(qber)

\* C6: everywhere the detection flag is reported (the simulator's result, the
\* qkd_completed broadcast, which carries the simulator's or the fallback's
\* result, and GET /result) it equals (eve_fraction > 0) AND (qber > 0.1).
C6_EveDetectedEverywhere ==
    /\ simPc = "done" =>
           simResult.eve_detected = EveDetected(simReq.eve_fraction, simResult.qber)
    /\ \A k \in 1..Len(events) :
           events[k].type = "qkd_completed" =>
               events[k].payload[1].eve_detected =
                   EveDetected(sessions[events[k].session_id].eve_fraction,
                               events[k].payload[1].qber)
    /\ (resp.op = "result" /\ resp.code = 200) =>
           resp.body[1].eve_detected =
               EveDetected(sessions[resp.session_id].eve_fraction, resp.body[1].qber[1])

\* C7: parameter validation.  For a request that is not valid no random value
\* is drawn and no result is produced.
C7_InvalidRejected ==
    (simPc # "idle" /\ ~ValidRequest(simReq)) =>
        /\ alice_bits = <<>> /\ alice_bases = <<>> /\ bob_bases = <<>>
        /\ simResult = NoResult

\* C8: content-hash verification.  A download of a transfer whose hash was
\* recorded answers with a file only if the SHA-256 of the bytes it returns is
\* the recorded file_hash.
C8_HashVerified ==
    [][ \A tid \in DOMAIN transfers : \A sid \in DOMAIN sessions :
          (/\ transfers[tid].file_hash # None
           /\ download_file_content(sid, tid)
           /\ resp'.code = 200)
            => transfers[tid].file_hash = Some(Sha256(resp'.body)) ]_vars

TerminalTypes == {"quantum_encryption_completed", "quantum_encryption_error"}

\* The positions in the broadcast order of the events of a transfer.
EventsOf(tid) == { k \in 1..Len(events) : events[k].transfer_id = tid }
Terminals(tid) == { k \in EventsOf(tid) : events[k].type \in TerminalTypes }

\* C9: terminal status exactly once.  An upload that passed its precondition
\* checks has emitted no terminal event while it is in its chunk loop and
\* exactly one from the moment it leaves the loop: quantum_encryption_completed
\* if it stored its results, quantum_encryption_error if it aborted; every
\* other event of the upload comes before it.
C9_TerminalOnce ==
    \A tid \in DOMAIN transfers :
        /\ Cardinality(Terminals(tid)) <= 1
        /\ up[tid].pc \in {"read", "progress_broadcast"} => Terminals(tid) = {}
        /\ UploadCompleted(tid) =>
               \E k \in Terminals(tid) : events[k].type = "quantum_encryption_completed"
        /\ up[tid].pc \in {"error_broadcast", "raised"} =>
               \E k \in Terminals(tid) : events[k].type = "quantum_encryption_error"
        /\ \A k \in Terminals(tid) : \A j \in EventsOf(tid) : j <= k

\* An upload has aborted after a progress event and has answered 500.
C9_Witness ==
    \E tid \in DOMAIN transfers :
        /\ up[tid].pc = "raised"
        /\ up[tid].chunk_count >= 1
        /\ Cardinality(Terminals(tid)) = 1
        /\ Cardinality(EventsOf(tid)) >= 2

\* The progress events of a transfer, in the order of their broadcast.
ProgressEvents(tid) ==
    SelectSeq(events, LAMBDA e : e.transfer_id = tid /\ e.type = "quantum_encryption_progress")

\* a <= b for fractions with positive denominators.
FractionLeq(a, b) == a.num * b.den <= b.num * a.den

\* C10: progress ordering.  One progress event per encrypted chunk, in stream
\* order: the k-th reports chunks_processed = k and the share of the file that
\* the first k chunks make up; the percent never decreases and lies in [0, 100].
C10_ProgressOrdered ==
    \A tid \in DOMAIN transfers :
        LET updates == ProgressEvents(tid)
            file_size == Len(up[tid].data)
        IN  /\ Len(updates) = up[tid].chunk_count
            /\ \A k \in 1..Len(updates) :
                   /\ updates[k].chunks_processed = k
                   /\ updates[k].progress.den > 0
                   /\ updates[k].progress.den * updates[k].progress.num >= 0
                   /\ FractionLeq(updates[k].progress, [num |-> 100, den |-> 1])
                   /\ FractionLeq([num |-> Min(k * ChunkSize, file_size) * 100, den |-> file_size],
                                  updates[k].progress)
                   /\ FractionLeq(updates[k].progress,
                                  [num |-> Min(k * ChunkSize, file_size) * 100, den |-> file_size])
                   /\ k > 1 => FractionLeq(updates[k - 1].progress, updates[k].progress)

\* An upload of two chunks has returned: two progress events, the last at 100.
C10_Witness ==
    \E tid \in DOMAIN transfers :
        /\ up[tid].pc = "returned"
        /\ Len(ProgressEvents(tid)) = 2
        /\ ProgressEvents(tid)[1].progress.num < 100 * ProgressEvents(tid)[1].progress.den
        /\ ProgressEvents(tid)[2].progress.num = 100 * ProgressEvents(tid)[2].progress.den

\* ceil(n / d) for d > 0.
CeilDiv(n, d) == (n + d - 1) \div d

\* The plaintext chunk r (1-based) of a file read chunk_size bytes at a time.
PlainChunk(data, r) == SubSeq(data, (r - 1) * ChunkSize + 1, Min(r * ChunkSize, Len(data)))

\* The number of cells of a container before its record r (1-based), when every
\* record before it holds a full chunk.
RecordStart(r) == NonceCells + (r - 1) * (ChunkSize + TagCells)

\* C11: record layout.  The container of a completed upload of N bytes holds,
\* after the header, ceil(N / chunk_size) records in stream order, each a tag
\* followed by a ciphertext as long as its plaintext chunk; encrypted_size is
\* header + N + tag size * ceil(N / chunk_size); and the reads of the
\* decryption loop are exactly these records.
C11_RecordLayout ==
    \A tid \in DOMAIN transfers :
        UploadCompleted(tid) =>
            LET data == up[tid].data
                cells == disk[tid].cells
                records == CeilDiv(Len(data), ChunkSize)
            IN  /\ Len(cells) = NonceCells + Len(data) + TagCells * records
                /\ transfers[tid].encrypted_size = Some(Len(cells))
                /\ \A r \in 1..records :
                       LET first == RecordStart(r) + 1
                           last == RecordStart(r) + TagCells + Len(PlainChunk(data, r))
                           ciphertext == SubSeq(cells, first + TagCells, last)
                       IN  /\ cells[first].tag # <<>>
                           /\ cells[first].tag[3] = ciphertext
                           /\ \A k \in 1..Len(ciphertext) : ciphertext[k].tag = <<>>
                           /\ decrypt_chunk(SubSeq(cells, first, last), up[tid].aes_key[1],
                                            up[tid].nonce).data = PlainChunk(data, r)
                /\ ReadLengths(SubSeq(cells, NonceCells + 1, Len(cells)))
                     = [r \in 1..records |-> TagCells + Len(PlainChunk(data, r))]

\* An upload of one full chunk and a shorter one has returned: two records.
C11_Witness ==
    \E tid \in DOMAIN transfers :
        /\ up[tid].pc = "returned"
        /\ Len(up[tid].data) = ChunkSize + 1
        /\ Len(disk[tid].cells) = NonceCells + ChunkSize + 1 + 2 * TagCells
        /\ transfers[tid].encrypted_size = Some(Len(disk[tid].cells))

\* A stored container holds the cells that were written, but not where they
\* were written: it is as long as written and differs from it.
Reordered(tid) ==
    /\ Len(disk[tid].cells) = Len(Written(tid))
    /\ disk[tid].cells # Written(tid)

\* C12: position binding.  A download of a container in which records of
\* equal length have been exchanged, or one replaced by a copy of another,
\* fails and returns no plaintext.
C12_PositionBound ==
    [][ \A tid \in DOMAIN transfers :
          (/\ up[tid].pc = "returned"
           /\ Reordered(tid)
           /\ download_file_content(transfers[tid].session_id, tid))
            => (resp'.code = 500 /\ resp'.body = <<>>) ]_vars

\* C13: noise-free, eavesdropper-free channel.  A run with eve_fraction = 0
\* and noise_p = 0 returns qber = 0 and eve_detected = false, whatever the
\* random choices were.
C13_CleanChannel ==
    (simPc = "done" /\ simReq.eve_fraction = 0 /\ simReq.noise_p = 0) =>
        /\ simResult.qber.num = 0
        /\ simResult.eve_detected = FALSE
        /\ \A i \in MatchingPositions : bob_measurements[i] = alice_bits[i]

\* Such a run has ended with a sample that is not empty.
C13_Witness ==
    /\ simPc = "done"
    /\ simReq.eve_fraction = 0 /\ simReq.noise_p = 0
    /\ simReq.noise_model = "depolarizing"
    /\ Len(simResult.sample_positions) >= 1
    /\ simResult.qber.num = 0
    /\ simResult.eve_detected = FALSE

\* The qubit (1-based) behind the n-th bit (1-based) of the sifted key.
NthMatching(n) ==
    CHOOSE i \in MatchingPositions : Cardinality({ j \in MatchingPositions : j <= i }) = n

C15_EmptySample ==
    (simPc = "done" /\ Len(sifted_key) < SampleDivisor) =>
        /\ simResult.status = "ok"
        /\ simResult.qber.num = 0 /\ simResult.qber.den > 0
        /\ simResult.sample_positions = <<>>
        /\ simResult.sample_values = <<>>
        /\ simResult.eve_detected = FALSE

\* A run with full interception and full noise has ended with a sifted key of
\* three bits, all received wrong.
C15_Witness ==
    /\ simPc = "done"
    /\ simReq.eve_fraction > 0 /\ simReq.noise_p > 0
    /\ Len(sifted_key) = SampleDivisor - 1
    /\ \A i \in MatchingPositions : bob_measurements[i] # alice_bits[i]
    /\ simResult.status = "ok"
    /\ simResult.sample_positions = <<>>
    /\ simResult.eve_detected = FALSE

\* Bit i (1-based) of the bytes a hex string stands for, most significant bit
\* of each byte first.
DecodeBit(hex, i) == (HexValue(hex[((i - 1) \div 4) + 1]) \div (2 ^ (3 - ((i - 1) % 4)))) % 2

\* C16: key encoding.  The hex key of a sifted key of L bits has
\* 2 * ceil(L / 8) lowercase hex characters (none when L = 0); its first L
\* bits, most significant bit first, are the sifted bits and the bits after
\* them are zero.
C16_KeyEncoding ==
    simPc = "encoded" =>
        LET hex == simResult.sifted_key
            length == Len(sifted_key)
        IN  /\ Len(hex) = 2 * CeilDiv(length, 8)
            /\ \A c \in 1..Len(hex) : HexValue(hex[c]) >= 0
            /\ \A i \in 1..length : DecodeBit(hex, i) = sifted_key[i]
            /\ \A i \in (length + 1)..(4 * Len(hex)) : DecodeBit(hex, i) = 0

\* A key of more than one byte that ends in a 1 has been encoded.
C16_Witness ==
    /\ simPc = "encoded"
    /\ Len(sifted_key) > 8
    /\ sifted_key[Len(sifted_key)] = 1
    /\ sifted_key[1] = 0 /\ sifted_key[2] = 1
    /\ Len(simResult.sifted_key) = 4

\* The events of an upload that report the fingerprint of its key.
FingerprintEvents(tid) ==
    { k \in EventsOf(tid) : events[k].type \in {"quantum_encryption_progress",
                                                "quantum_encryption_completed"} }

HasMalformedKey(sid) ==
    /\ sid \in DOMAIN sessions
    /\ sid \in MalformedSessions
    /\ sessions[sid].sifted_key = Some(MalformedKeys[sid])

\* C18: malformed key input.  When the stored sifted_key is not valid hex, an
\* upload of that session ends with the transfer in status encryption_failed
\* with the decoding error as its message, one error event and the answer 500;
\* no container exists for it and the transfer is never ready or decrypting; a
\* download through that session answers 500 and serves no plaintext.
C18_MalformedKeyFatal ==
    /\ \A tid \in DOMAIN transfers :
          HasMalformedKey(transfers[tid].session_id) =>
              /\ transfers[tid].status = "encryption_failed"
              /\ transfers[tid].error_message = Some("ValueError")
              /\ transfers[tid].encrypted_size = None
              /\ up[tid].pc \in {"error_broadcast", "raised"}
              /\ ~disk[tid].exists /\ disk[tid].cells = <<>>
              /\ ~temp[tid].exists
              /\ \A k \in EventsOf(tid) : events[k].type = "quantum_encryption_error"
    /\ (resp.op = "upload" /\ HasMalformedKey(resp.session_id)) =>
          (resp.code = 500 /\ resp.detail = "ValueError" /\ resp.body = <<>>)
    /\ (resp.op = "content" /\ HasMalformedKey(resp.session_id)) =>
          (resp.code = 500 /\ resp.body = <<>>)
    /\ (resp.op = "info" /\ resp.transfer_id \in DOMAIN transfers
          /\ HasMalformedKey(transfers[resp.transfer_id].session_id)) => resp.code # 200

\* An upload of the session with the odd-length key has been answered with the
\* error, and a download through the session with the non-hex key of a stored
\* container of three bytes has failed in the key derivation.
C18_Witness ==
    /\ \E tid \in DOMAIN transfers :
          /\ transfers[tid].session_id = "s2"
          /\ up[tid].pc = "raised"
          /\ transfers[tid].status = "encryption_failed"
    /\ \E tid \in DOMAIN transfers :
          /\ transfers[tid].session_id = "s1"
          /\ up[tid].pc = "returned"
          /\ Len(up[tid].data) = 3
          /\ resp = Response("content", "s3", tid, 500, "ValueError", <<>>)

\* C19: upload failure is a unit.  Once upload_file has answered with the error
\* of a step that raised after the transfer record was created, the transfer
\* has status encryption_failed
\* and the error text as its error_message, the session still has the status
\* it had before the upload, key_derived, and the transfer is not ready (nor
\* handed to a download).
C19_FailureIsUnit ==
    \A tid \in DOMAIN transfers :
        up[tid].pc = "raised" =>
            /\ transfers[tid].status = "encryption_failed"
            /\ transfers[tid].error_message = Some(up[tid].error)
            /\ sessions[transfers[tid].session_id].status = "key_derived"

\* C21: downloads of the same transfer do not interfere.  The response of a
\* download of a completely uploaded file is sent with status 200 and with the
\* plaintext its own handler wrote to the temporary file: no later download
\* has rewritten the file and no cleanup task of an earlier download has
\* deleted it before the response was sent.
C21_DownloadsIndependent ==
    \A k \in DOMAIN downloads :
        (downloads[k].pc = "sent" /\ up[downloads[k].transfer_id].pc = "returned") =>
            (downloads[k].code = 200 /\ downloads[k].body = downloads[k].written)

\* C22: error kind is preserved on download.  download_file_content answers
\* 404 when the session, the transfer record or the encrypted container is
\* missing, and never reports a not-found condition as a decryption failure
\* (500).
C22_NotFoundIs404 ==
    [][ \A sid \in SessionIds, tid \in TransferIds :
          (/\ download_file_content(sid, tid)
           /\ \/ sid \notin DOMAIN sessions
              \/ tid \notin DOMAIN transfers
              \/ ~disk[tid].exists)
            => resp'.code = 404 ]_vars

\* The position the iteration that ran last has recorded.
LastQubit == Len(alice_bits)

\* C23: channel model.  At a position where Alice's and Bob's bases match,
\* Bob's recorded bit differs from Alice's only if the noise flip fired at that
\* position or the qubit was intercepted by an eavesdropper whose basis differs
\* from Alice's; with no flip and no such interception the bits are equal.
C23_ChannelModel ==
    (draw.status = "drawn" /\ alice_bases[LastQubit] = bob_bases[LastQubit]) =>
        (bob_measurements[LastQubit] # alice_bits[LastQubit] =>
            \/ draw.flip
            \/ draw.eve_intercepts /\ draw.eve_basis # alice_bases[LastQubit])

\* The second qubit of a request was intercepted in the other basis, was not
\* flipped by noise, and Bob, measuring in Alice's basis, recorded the wrong bit.
C23_Witness ==
    /\ draw.status = "drawn"
    /\ LastQubit = 2
    /\ alice_bases[LastQubit] = bob_bases[LastQubit]
    /\ draw.eve_intercepts /\ draw.eve_basis # alice_bases[LastQubit]
    /\ ~draw.flip
    /\ bob_measurements[LastQubit] # alice_bits[LastQubit]

\* C24: noise model selection.  Bit flips from channel noise are applied only
\* under the depolarizing noise model: with noise_model = none no received bit
\* is flipped whatever noise_p is, so a run with eve_fraction = 0 has Bob's bit
\* equal to Alice's wherever their bases match, and qber = 0.
C24_NoiseOnlyWhenDepolarizing ==
    (simPc = "done" /\ simReq.noise_model = "none" /\ simReq.eve_fraction = 0) =>
        /\ \A i \in MatchingPositions : bob_measurements[i] = alice_bits[i]
        /\ simResult.qber.num = 0

\* C25: start_qkd is accepted only when the session's status is created or
\* failed: then it answers 200, sets status key_exchange and progress 0,
\* schedules a run and emits qkd_started.  In every other status it answers
\* 400, schedules no run, emits no event and leaves the session as it is.
C25_StartGuard ==
    [][ \A sid \in LifeSessions :
          (sid \in DOMAIN sessions /\ start_qkd(sid)) =>
              IF sessions[sid].status \in {"created", "failed"}
              THEN /\ resp'.code = 200
                   /\ sessions'[sid].status = "key_exchange"
                   /\ sessions'[sid].qkd_progress = Fraction(0, 1)
                   /\ sessions'[sid].sifted_key = sessions[sid].sifted_key
                   /\ qkdTask'[sid].pc = "progress" /\ qkdTask'[sid].progress = 0
                   /\ events' = Append(events, QkdEvent("qkd_started", sid, <<>>))
              ELSE /\ resp'.code = 400
                   /\ sessions' = sessions
                   /\ qkdTask' = qkdTask
                   /\ events' = events ]_vars

\* A start request has been rejected for a session that is ready for download,
\* after its one run ended.
C25_Witness ==
    /\ "s1" \in DOMAIN sessions
    /\ sessions["s1"].status = "ready_for_download"
    /\ resp = Response("start", "s1", 0, 400, "QKD already started or completed", <<>>)
    /\ qkdTask["s1"].pc = "done"
    /\ RunsStarted("s1") = 1

\* The status and the detail upload_file answers with when it rejects a
\* request for session sid with a file of file_size bytes, or <<>> when the
\* preconditions hold.
UploadRejection(sid, file_size) ==
    IF sid \notin DOMAIN sessions THEN <<404, "Quantum session not found">>
    ELSE IF sessions[sid].status # "key_derived"
    THEN <<400, "Quantum key distribution not completed">>
    ELSE IF sessions[sid].sifted_key = None \/ sessions[sid].sifted_key[1] = <<>>
    THEN <<400, "No quantum encryption key available">>
    ELSE IF file_size > MAX_FILE_SIZE THEN <<413, "File too large">>
    ELSE <<>>

\* C26: upload preconditions.  upload_file creates a transfer and encrypts
\* only when the session exists, its status is key_derived, its sifted_key is
\* non-empty and the file is at most MAX_FILE_SIZE long; otherwise it answers
\* 404, 400, 400 or 413 and creates no transfer record, writes no container
\* and emits no event.  The key of an accepted upload is derived from a
\* sifted key that is not empty.
C26_UploadPreconditions ==
    [][ \A sid \in LifeSessions, data \in LifeFiles :
          upload_file(sid, data) =>
              LET rejection == UploadRejection(sid, Len(data))
                  tid == Len(transfers) + 1
              IN  IF rejection # <<>>
                  THEN /\ resp'.op = "upload"
                       /\ resp'.code = rejection[1] /\ resp'.detail = rejection[2]
                       /\ transfers' = transfers /\ up' = up
                       /\ disk' = disk /\ events' = events
                  ELSE /\ Len(transfers') = tid
                       /\ transfers'[tid].session_id = sid
                       /\ transfers'[tid].status = "encrypting"
                       /\ disk'[tid].exists
                       /\ up'[tid].aes_key # <<>>
                       /\ up'[tid].aes_key[1].ikm # <<>> ]_vars

\* An upload to a session that is key_derived with an empty sifted key has
\* been rejected, and no transfer exists.
C26_Witness ==
    /\ "s1" \in DOMAIN sessions
    /\ sessions["s1"].status = "key_derived"
    /\ sessions["s1"].sifted_key = Some(<<>>)
    /\ resp = Response("upload", "s1", 0, 400, "No quantum encryption key available", <<>>)
    /\ transfers = <<>>

\* The run of a session has stored "key_derived" or "failed".
RunHasSetStatus(sid) == qkdTask[sid].pc \in {"completed_broadcast", "done"}

\* C27: one run in flight.  While the run of a session has not yet stored
\* key_derived or failed, the session's status is key_exchange, and a start
\* request schedules a second run for a session only when the earlier run has
\* stored its status and that status is failed.
C27_OneRunInFlight ==
    [][ \A sid \in DOMAIN qkdTask :
          /\ ~RunHasSetStatus(sid) => sessions[sid].status = "key_exchange"
          /\ qkdTask'[sid].run # qkdTask[sid].run =>
                /\ RunHasSetStatus(sid)
                /\ sessions[sid].status = "failed"
                /\ qkdTask'[sid].run = qkdTask[sid].run + 1 ]_vars

\* The second run of a session is in its progress loop.
C27_Witness ==
    /\ "s1" \in DOMAIN qkdTask
    /\ qkdTask["s1"].run = 2
    /\ qkdTask["s1"].pc = "progress"
    /\ qkdTask["s1"].progress > 0
    /\ sessions["s1"].status = "key_exchange"

\* The qkd_completed and qkd_error events emitted for a session so far.
TerminalEvents(sid) ==
    Cardinality({ k \in 1..Len(events) :
                    /\ events[k].type \in {"qkd_completed", "qkd_error"}
                    /\ events[k].session_id = sid })

\* C28: runs end with one terminal event.  Every run that has left
\* key_exchange has emitted exactly one qkd_completed or qkd_error event, and
\* a run still in key_exchange none: the terminal events of a session are as
\* many as its runs that have stored key_derived or failed.
C28_OneTerminalEventPerRun ==
    \A sid \in DOMAIN qkdTask :
        TerminalEvents(sid) = IF RunHasSetStatus(sid)
                              THEN RunsStarted(sid)
                              ELSE RunsStarted(sid) - 1

\* C29: key stability.  The fingerprint every qkd_completed event announced
\* for a session, the fingerprint of the key stored when the session reached
\* key_derived, is the fingerprint the session has ever after, and every
\* container an upload finished was encrypted under the key that the
\* session's sifted_key derives now.
C29_KeyStability ==
    /\ \A k \in 1..Len(events) :
          events[k].type = "qkd_completed" =>
              sessions[events[k].session_id].aes_key_fingerprint
                  = Some(events[k].payload[1].key_fingerprint)
    /\ \A tid \in DOMAIN transfers :
          (up[tid].pc = "returned" /\ transfers[tid].status = "ready") =>
              derive_aes_key(sessions[transfers[tid].session_id].sifted_key,
                             transfers[tid].session_id).key = up[tid].aes_key

\* C30: a key_derived session is usable.  Whenever the status of a session is
\* key_derived its sifted_key is stored and not empty, so that the key check
\* of upload_file passes.
C30_KeyDerivedUsable ==
    \A sid \in DOMAIN sessions :
        sessions[sid].status = "key_derived" =>
            /\ sessions[sid].sifted_key # None
            /\ sessions[sid].sifted_key[1] # <<>>

\* The uploads to a session that have returned the success response.
UploadsReturnedReady(sid) ==
    { tid \in DOMAIN transfers :
        /\ transfers[tid].session_id = sid
        /\ up[tid].pc = "returned"
        /\ transfers[tid].status = "ready" }

\* C31: one file per session key.  Under any interleaving of upload requests
\* to the same session, at most one upload returns with status ready.
C31_OneUploadPerSession ==
    \A sid \in DOMAIN sessions : Cardinality(UploadsReturnedReady(sid)) <= 1

\* C32: session binding of downloads.  A request of download_file_content
\* that names an existing session other than the session the transfer belongs
\* to is never answered with the file (200), whatever the file is.
C32_SessionBinding ==
    [][ \A sid \in SessionIds, tid \in TransferIds :
          ( /\ sid \in DOMAIN sessions
            /\ tid \in DOMAIN transfers
            /\ transfers[tid].session_id # sid
            /\ download_file_content(sid, tid) ) => resp'.code # 200 ]_vars

\* A websocket is in the list of its session.
Registered(ws, sid) ==
    sid \in DOMAIN active_connections /\ InList(active_connections[sid], ws)

\* C33: broadcast_to_session never raises.  Whatever connects and disconnects
\* while a broadcast is suspended at a send and whichever sends fail, no call
\* ends by raising, and a call that has returned has removed every connection
\* whose send failed.
C33_BroadcastNeverRaises ==
    \A b \in DOMAIN broadcasts :
        /\ broadcasts[b].pc # "raised"
        /\ broadcasts[b].pc = "returned" =>
              \A i \in DOMAIN broadcasts[b].disconnected :
                  ~Registered(broadcasts[b].disconnected[i], broadcasts[b].session_id)

\* C34: registry consistency.  After any sequence of connects, disconnects
\* and broadcasts, no disconnect() called by an endpoint has raised, also when
\* a broadcast whose send failed has removed the websocket before, and no
\* session entry of the registry holds an empty list.
C34_RegistryConsistent ==
    /\ \A ws \in Websockets : endpoints[ws].pc # "raised"
    /\ \A sid \in DOMAIN active_connections : active_connections[sid] # <<>>

====
